---- MODULE Spec2Model ----
(***************************************************************************)
(* A model of the stackblur-iter crate: the StackBlur generator            *)
(* (src/src/iter.rs), fed one Option<B> per call, over the wrapping sample *)
(* type StackBlurrableU32 (src/src/color/serial.rs) scaled down to         *)
(* SampleBits bits.                                                        *)
(***************************************************************************)
EXTENDS Integers, Sequences, FiniteSets, TLC

\* ------------------------------------------------------------------ bounds
MaxRadius == 2
MaxLen == 4
MaxVal == 2
SampleBits == 6
MaxDim == 5
MaxPixel == 16

RECURSIVE Pow2(_)
Pow2(n) == IF n = 0 THEN 1 ELSE 2 * Pow2(n - 1)

Modulus == Pow2(SampleBits)
Samples == 0 .. MaxVal
Radii == 0 .. MaxRadius

\* ------------------------------------------------- the sample type (serial.rs)
Default == 0
Add(a, b) == (a + b) % Modulus
\* faulty variant of Sub: the subtraction saturates at zero instead of wrapping
Mut_Sub_Saturating(a, b) == IF a < b THEN 0 ELSE a - b

Sub(a, b) == (a - b) % Modulus
\* faulty variant of Mul: the product is one too large
Mut_Mul_PlusOne(a, n) == (a * (n % Modulus) + 1) % Modulus

Mul(a, n) == (a * (n % Modulus)) % Modulus
\* faulty variant of Div: the quotient is rounded up
Mut_Div_RoundUp(a, n) == (a + (n % Modulus) - 1) \div (n % Modulus)

Div(a, n) == a \div (n % Modulus)

\* Option<B>: None is the empty sequence, Some(x) the one-element sequence.
None == << >>
Some(x) == << x >>

\* ------------------------------------------------------- enum State (iter.rs)
Preload(index, trailing) ==
    [tag |-> "Preload", index |-> index, leading |-> 0, trailing |-> trailing]
Main(leading, trailing) ==
    [tag |-> "Main", index |-> 0, leading |-> leading, trailing |-> trailing]

\* --------------------------------------------------------- constructors
with_ops(radius, ops) ==
    [radius |-> radius, sum |-> Default, rate |-> Default, dnom |-> 0,
     ops |-> ops, state |-> Preload(0, 0)]

new(radius) == with_ops(radius, << >>)

into_ops(g) == g.ops

\* The outcome of one call: the generator afterwards, the value returned and
\* the panic raised ("none" when the call returns).
Outcome(g, ret, panic) == [g |-> g, ret |-> ret, panic |-> panic]

\* ------------------------------------------------------------- preload
\* faulty variant of ClearOps: the recycled window is not zeroed
Mut_ClearOps_Keeps(ops, start) == ops

\* self.ops.iter_mut().take(start).for_each(|place| *place = B::default())
ClearOps(ops, start) ==
    [i \in 1 .. Len(ops) |-> IF i <= start THEN Default ELSE ops[i]]

\* faulty variant of ResizeOps: the deque is resized to one element more
Mut_ResizeOps_OneMore(ops, start) ==
    IF Len(ops) >= start + 1
    THEN SubSeq(ops, 1, start + 1)
    ELSE ops \o [i \in 1 .. (start + 1 - Len(ops)) |-> Default]

\* faulty variant of ResizeOps: the deque is grown but never truncated
Mut_ResizeOps_GrowOnly(ops, start) ==
    IF Len(ops) >= start
    THEN ops
    ELSE ops \o [i \in 1 .. (start - Len(ops)) |-> Default]

\* self.ops.resize_with(start, B::default)
ResizeOps(ops, start) ==
    IF Len(ops) >= start
    THEN SubSeq(ops, 1, start)
    ELSE ops \o [i \in 1 .. (start - Len(ops)) |-> Default]

\* faulty variant of PreloadReset: the denominator is not reset
Mut_PreloadReset_KeepDnom(g) ==
    [g EXCEPT !.ops = ResizeOps(ClearOps(g.ops, g.radius + 1), g.radius + 1),
              !.sum = Default,
              !.rate = Default]

\* the index == 0 branch: the window and the accumulators are reset
PreloadReset(g) ==
    [g EXCEPT !.ops = ResizeOps(ClearOps(g.ops, g.radius + 1), g.radius + 1),
              !.sum = Default,
              !.rate = Default,
              !.dnom = 0]

\* faulty variant of PreloadAccumulate: the sample is not added to rate
Mut_PreloadAccumulate_NoRate(g, mul, x) ==
    [g EXCEPT !.sum = Add(g.sum, Mul(x, mul)),
              !.dnom = g.dnom + mul,
              !.ops = Append(g.ops, x)]

\* faulty variant of PreloadAccumulate: the sample is folded in with weight 1
Mut_PreloadAccumulate_FlatWeight(g, mul, x) ==
    [g EXCEPT !.sum = Add(g.sum, x),
              !.rate = Add(g.rate, x),
              !.dnom = g.dnom + mul,
              !.ops = Append(g.ops, x)]

\* the sample is folded in with weight mul and pushed on the window
PreloadAccumulate(g, mul, x) ==
    [g EXCEPT !.sum = Add(g.sum, Mul(x, mul)),
              !.rate = Add(g.rate, x),
              !.dnom = g.dnom + mul,
              !.ops = Append(g.ops, x)]

\* faulty variant of PreloadNextState: trailing advances with the first sample too
Mut_PreloadNextState_AlwaysTrailing(g, mul, index, trailing) ==
    IF index > g.radius THEN Main(0, trailing)
    ELSE Preload(index + 1, trailing + 1)

\* faulty variant of PreloadNextState: trailing is never advanced
Mut_PreloadNextState_NoTrailing(g, mul, index, trailing) ==
    IF index > g.radius THEN Main(0, trailing)
    ELSE Preload(index + 1, trailing)

\* the state after a sample consumed during warm-up
PreloadNextState(g, mul, index, trailing) ==
    IF index > g.radius THEN Main(0, trailing)
    ELSE IF g.dnom > mul THEN Preload(index + 1, trailing + 1)
    ELSE Preload(index + 1, trailing)

\* faulty variant of PreloadIdle: the end of an empty input resets the generator
Mut_PreloadIdle_Resets(g) == Outcome(PreloadReset(g), None, "none")

\* feed(None) before any sample: nothing to emit, nothing changes
PreloadIdle(g) == Outcome(g, None, "none")

\* ---------------------------------------------------------------- main
\* faulty variant of MainRate: the window is indexed as it stood before its
\* front was removed
Mut_MainRate_IndexBeforePop(g, front, ops) ==
    LET mid == IF g.radius = 0 THEN front ELSE ops[g.radius]
        rate == Sub(Add(g.rate, front), Mul(mid, 2))
    IN  [g EXCEPT !.rate = rate, !.sum = Add(g.sum, rate), !.ops = ops]

\* faulty variant of MainRate: the front of the window is read but not removed
Mut_MainRate_NoPop(g, front, ops) ==
    LET rate == Sub(Add(g.rate, front), Mul(ops[g.radius + 1], 2))
    IN  [g EXCEPT !.rate = rate, !.sum = Add(g.sum, rate), !.ops = << front >> \o ops]

\* faulty variant of MainRate: the middle sample is subtracted once, not twice
Mut_MainRate_SingleSub(g, front, ops) ==
    LET rate == Sub(Add(g.rate, front), ops[g.radius + 1])
    IN  [g EXCEPT !.rate = rate, !.sum = Add(g.sum, rate), !.ops = ops]

\* self.rate += front; self.rate -= self.ops[self.radius] * 2; self.sum += rate
\* (front has been popped: ops is the window after pop_front)
MainRate(g, front, ops) ==
    LET rate == Sub(Add(g.rate, front), Mul(ops[g.radius + 1], 2))
    IN  [g EXCEPT !.rate = rate, !.sum = Add(g.sum, rate), !.ops = ops]

\* faulty variant of MainLeading: the weight is taken before leading advances
Mut_MainLeading_OldWeight(g, leading) ==
    IF leading < g.radius
    THEN [g |-> [g EXCEPT !.dnom = g.dnom + (g.radius + 1 - leading)],
          leading |-> leading + 1]
    ELSE [g |-> g, leading |-> leading]

\* if leading < self.radius { leading += 1; self.dnom += radius + 1 - leading }
MainLeading(g, leading) ==
    IF leading < g.radius
    THEN [g |-> [g EXCEPT !.dnom = g.dnom + (g.radius + 1 - (leading + 1))],
          leading |-> leading + 1]
    ELSE [g |-> g, leading |-> leading]

\* faulty variant of MainAccept: the sample is not added to rate
Mut_MainAccept_NoRate(g, leading, trailing, x) ==
    [g EXCEPT !.sum = Add(g.sum, x),
              !.ops = Append(g.ops, x),
              !.state = Main(leading, trailing)]

\* faulty variant of MainAccept: the sample is pushed on the window twice
Mut_MainAccept_PushTwice(g, leading, trailing, x) ==
    [g EXCEPT !.sum = Add(g.sum, x),
              !.rate = Add(g.rate, x),
              !.ops = Append(Append(g.ops, x), x),
              !.state = Main(leading, trailing)]

\* the sample is accepted: added to sum and rate, pushed on the window
MainAccept(g, leading, trailing, x) ==
    [g EXCEPT !.sum = Add(g.sum, x),
              !.rate = Add(g.rate, x),
              !.ops = Append(g.ops, x),
              !.state = Main(leading, trailing)]

\* faulty variant of MainShrink: trailing goes down by two where it can
Mut_MainShrink_DoubleStep(g, leading, trailing) ==
    IF g.dnom < g.radius + 1 - trailing \/ trailing < 1
    THEN Outcome(g, None, "overflow")
    ELSE Outcome([g EXCEPT !.dnom = g.dnom - (g.radius + 1 - trailing),
                           !.state = Main(leading, IF trailing > 1 THEN trailing - 2 ELSE 0)],
                 None, "none")

\* faulty variant of MainShrink: the trailing edge gives up a weight of 1
Mut_MainShrink_UnitWeight(g, leading, trailing) ==
    IF g.dnom < 1 \/ trailing < 1
    THEN Outcome(g, None, "overflow")
    ELSE Outcome([g EXCEPT !.dnom = g.dnom - 1,
                           !.state = Main(leading, trailing - 1)],
                 None, "none")

\* the trailing edge shrinks: dnom -= radius + 1 - trailing; trailing -= 1
\* (a usize subtraction below zero is reported as the panic "overflow"; no
\* reachable call makes one)
MainShrink(g, leading, trailing) ==
    IF g.dnom < g.radius + 1 - trailing \/ trailing < 1
    THEN Outcome(g, None, "overflow")
    ELSE Outcome([g EXCEPT !.dnom = g.dnom - (g.radius + 1 - trailing),
                           !.state = Main(leading, trailing - 1)],
                 None, "none")

\* faulty variant of MainFinish: the state is left as it is
Mut_MainFinish_Stays(g) == g

\* the sequence is finished
MainFinish(g) == [g EXCEPT !.state = Preload(0, 0)]

\* faulty variant of MainTail: the sequence finishes one step early
Mut_MainTail_EarlyFinish(g, leading, trailing, item) ==
    IF g.radius = 0 \/ trailing = g.radius
    THEN IF item # None THEN Outcome(MainAccept(g, leading, trailing, item[1]), None, "none")
         ELSE IF g.radius > 0 THEN MainShrink(g, leading, trailing)
         ELSE Outcome(MainFinish(g), None, "none")
    ELSE IF trailing > 1
    THEN IF item # None THEN Outcome(g, None, "fed item is not being consumed")
         ELSE MainShrink(g, leading, trailing)
    ELSE IF item # None THEN Outcome(g, None, "fed item is not being consumed")
         ELSE Outcome(MainFinish(g), None, "none")

\* faulty variant of MainTail: a sample fed while draining is accepted silently
Mut_MainTail_NoAssert(g, leading, trailing, item) ==
    IF item # None THEN Outcome(MainAccept(g, leading, trailing, item[1]), None, "none")
    ELSE IF trailing > 0 /\ g.radius > 0 THEN MainShrink(g, leading, trailing)
    ELSE Outcome(MainFinish(g), None, "none")

\* the branches after the leading edge has been updated
MainTail(g, leading, trailing, item) ==
    IF g.radius = 0 \/ trailing = g.radius
    THEN IF item # None THEN Outcome(MainAccept(g, leading, trailing, item[1]), None, "none")
         ELSE IF g.radius > 0 THEN MainShrink(g, leading, trailing)
         ELSE Outcome(MainFinish(g), None, "none")
    ELSE IF trailing > 0
    THEN IF item # None THEN Outcome(g, None, "fed item is not being consumed")
         ELSE MainShrink(g, leading, trailing)
    ELSE IF item # None THEN Outcome(g, None, "fed item is not being consumed")
         ELSE Outcome(MainFinish(g), None, "none")

main(g, leading, trailing, item) ==
    IF g.dnom % Modulus = 0 THEN Outcome(g, None, "divide by zero")
    ELSE IF Len(g.ops) = 0 THEN Outcome(g, None, "unwrap on None")
    ELSE IF Len(g.ops) - 1 <= g.radius
    THEN Outcome([g EXCEPT !.rate = Add(g.rate, Head(g.ops)), !.ops = Tail(g.ops)],
                 None, "index out of bounds")
    ELSE LET result == Div(g.sum, g.dnom)
             g1 == MainRate(g, Head(g.ops), Tail(g.ops))
             ld == MainLeading(g1, leading)
             out == MainTail(ld.g, ld.leading, trailing, item)
         IN  IF out.panic = "none" THEN Outcome(out.g, Some(result), "none") ELSE out

\* faulty variant of preload: the warm-up ends one sample early
Mut_preload_ShortWarmup(g, index, trailing, item) ==
    IF item # None
    THEN IF index # 0 /\ index >= g.radius
         THEN main([g EXCEPT !.state = Main(0, trailing)], 0, trailing, item)
         ELSE LET g0 == IF index = 0 THEN PreloadReset(g) ELSE g
                  mul == g.radius + 1 - index
                  g1 == PreloadAccumulate(g0, mul, item[1])
              IN  Outcome([g1 EXCEPT !.state = PreloadNextState(g1, mul, index, trailing)],
                          None, "none")
    ELSE IF index = 0 THEN PreloadIdle(g)
    ELSE main([g EXCEPT !.state = Main(0, trailing)], 0, trailing, None)

preload(g, index, trailing, item) ==
    IF item # None
    THEN IF index # 0 /\ index > g.radius
         THEN main([g EXCEPT !.state = Main(0, trailing)], 0, trailing, item)
         ELSE LET g0 == IF index = 0 THEN PreloadReset(g) ELSE g
                  mul == g.radius + 1 - index
                  g1 == PreloadAccumulate(g0, mul, item[1])
              IN  Outcome([g1 EXCEPT !.state = PreloadNextState(g1, mul, index, trailing)],
                          None, "none")
    ELSE IF index = 0 THEN PreloadIdle(g)
    ELSE main([g EXCEPT !.state = Main(0, trailing)], 0, trailing, None)

feed(g, item) ==
    IF g.state.tag = "Preload"
    THEN preload(g, g.state.index, g.state.trailing, item)
    ELSE main(g, g.state.leading, g.state.trailing, item)

\* ------------------------------------------------------- StackBlurIter
\* the inner iterator I: a script of items, Some(x) or None, handed out one per
\* poll; once the script is exhausted every poll gives None
InnerNext(it) ==
    IF it = << >> THEN [item |-> None, it |-> << >>]
    ELSE [item |-> Head(it), it |-> Tail(it)]

\* faulty variant of Resetting: the iterator never remembers it is draining
Mut_Resetting_Never(result) == FALSE

\* self.resetting = result.is_some()
Resetting(result) == result # None

\* faulty variant of IterDrain: every drain step polls the inner iterator too
Mut_IterDrain_Polls(self, taken) ==
    LET out == feed(self.generator, None)
    IN  [self |-> [self EXCEPT !.generator = out.g, !.resetting = Resetting(out.ret),
                               !.iter = InnerNext(self.iter).it],
         ret |-> out.ret, panic |-> out.panic, taken |-> taken]

\* let result = self.generator.feed(None); self.resetting = result.is_some(); result
IterDrain(self, taken) ==
    LET out == feed(self.generator, None)
    IN  [self |-> [self EXCEPT !.generator = out.g, !.resetting = Resetting(out.ret)],
         ret |-> out.ret, panic |-> out.panic, taken |-> taken]

\* for item in &mut self.iter { if let Some(result) = feed(Some(item)) { return } }
\* followed by the drain once the inner iterator has given None; taken collects
\* the samples pulled by this call
RECURSIVE IterLoop(_, _)
IterLoop(self, taken) ==
    LET polled == InnerNext(self.iter)
        self1 == [self EXCEPT !.iter = polled.it]
    IN  IF polled.item = None THEN IterDrain(self1, taken)
        ELSE LET out == feed(self1.generator, polled.item)
                 self2 == [self1 EXCEPT !.generator = out.g]
             IN  IF out.panic # "none" \/ out.ret # None
                 THEN [self |-> self2, ret |-> out.ret, panic |-> out.panic,
                       taken |-> taken \o polled.item]
                 ELSE IterLoop(self2, taken \o polled.item)

\* StackBlurIter::new(iter, radius, ops)
StackBlurIter_new(it, radius, ops) ==
    [iter |-> it, generator |-> with_ops(radius, ops), resetting |-> FALSE]

\* faulty variant of next: once draining, the iterator drains for ever
Mut_next_StuckResetting(self) ==
    IF self.resetting
    THEN LET res == IterDrain(self, << >>)
         IN  [res EXCEPT !.self.resetting = TRUE]
    ELSE IterLoop(self, << >>)

\* StackBlurIter::next
next(self) ==
    IF self.resetting THEN IterDrain(self, << >>) ELSE IterLoop(self, << >>)

\* ------------------------------------------------------------------ state
VARIABLES
    gen,      \* the StackBlur generator
    origin,   \* how its deque was obtained: what with_ops was given
    fed,      \* the samples fed in the current sequence, in order
    outs,     \* the outputs returned in the current sequence, in order
    dnoms,    \* the denominator each of these outputs was divided by
    sums,     \* the value of sum each of these outputs was divided from
    warm,     \* feed(Some) calls of the current sequence that returned None
    nones,    \* feed(None) calls made while the current sequence was unfinished
    drained,  \* outputs of the current sequence returned by feed(None)
    reused,   \* the generator has finished a sequence before the current one
    call,     \* the last call: "new", "some" or "none"
    ret,      \* what the last call returned
    panic,    \* the panic raised by the last call, "none" otherwise
    script,   \* StackBlurIter: the items its inner iterator was created with
    iter,     \* StackBlurIter: the items its inner iterator has yet to give
    resetting,\* StackBlurIter: self.resetting
    ends,     \* StackBlurIter: how many times next() has returned None
    buf,      \* blur: the pixel buffer, a sequence of rows
    image,    \* blur: the buffer as it was handed to blur
    pass,     \* blur: "rows", "cols" or "done"
    line,     \* blur: the row or column to blur next
    rewrite,  \* blur: the line last blurred, before and after, with its reads
    pixel,    \* Argb: the packed pixel given to from_u32
    argb,     \* Argb: what from_u32 returned
    packed,   \* Argb: what to_u32 returned
    simd,     \* StackBlur<StackBlurrableU32xN>: generator, last return, inputs left
    lanes,    \* one StackBlur<StackBlurrableU32> per lane, with its last return
    par,      \* par_blur: buffer, pass, next item of the bridged iterator, panic
    workers,  \* par_blur: what each thread of the pool is running
    opses     \* par_blur: opses, one Option<VecDeque> per thread

vars == << gen, origin, fed, outs, dnoms, sums, warm, nones, drained, reused, call,
           ret, panic, script, iter, resetting, ends, buf, image, pass, line,
           rewrite, pixel, argb, packed, simd, lanes, par, workers, opses >>

\* the variables of the generator's call history
histvars == << fed, outs, dnoms, sums, warm, nones, drained, reused >>

\* the variables of blur
imgvars == << buf, image, pass, line, rewrite >>

\* blur is not running
NoImage ==
    /\ buf = << >>
    /\ image = << >>
    /\ pass = "done"
    /\ line = 0
    /\ rewrite = << >>

\* the variables of the pixel conversions
cvtvars == << pixel, argb, packed >>

\* no pixel is being converted
NoPixel ==
    /\ pixel = << >>
    /\ argb = << >>
    /\ packed = << >>

\* the variables of the lane-packed generator and its scalar companions
simdvars == << simd, lanes >>

\* no lane-packed generator exists
NoSimd ==
    /\ simd = << >>
    /\ lanes = << >>

\* the variables of par_blur
parvars == << par, workers, opses >>

\* par_blur is not running
NoPar ==
    /\ par = << >>
    /\ workers = << >>
    /\ opses = << >>

\* the variables outside the generator, its iterator and blur
auxvars == << cvtvars, simdvars, parvars >>

NoAux == NoPixel /\ NoSimd /\ NoPar

itervars == << script, iter, resetting, ends >>

\* no sample of the current sequence has been consumed
Idle(g) == g.state = Preload(0, 0)

\* a deque longer than any window, full of non-zero samples
LongOps == [i \in 1 .. (2 * MaxRadius + 3) |-> MaxVal]

\* what with_ops was given: a non-empty deque (given), and one that holds
\* non-zero samples, is longer than the window of radius r, and was taken by
\* into_ops from a generator of another radius in the middle of a sequence (hard)
Origin(q, r, donor, mid) ==
    [given |-> q # << >>,
     hard |-> /\ \E i \in 1 .. Len(q) : q[i] # Default
              /\ Len(q) > 2 * r + 2
              /\ donor # -1 /\ donor # r
              /\ mid]

Init ==
    /\ \E r \in Radii : \E q \in {<< >>, LongOps} :
          /\ gen = with_ops(r, q)
          /\ origin = Origin(q, r, -1, FALSE)
    /\ fed = << >>
    /\ outs = << >>
    /\ dnoms = << >>
    /\ sums = << >>
    /\ warm = 0
    /\ nones = 0
    /\ drained = 0
    /\ reused = FALSE
    /\ call = "new"
    /\ ret = None
    /\ panic = "none"
    /\ script = << >>
    /\ iter = << >>
    /\ resetting = FALSE
    /\ ends = 0
    /\ NoImage
    /\ NoAux

\* generator.feed(Some(x))
FeedSome(x) ==
    /\ panic = "none"
    /\ Idle(gen) \/ Len(fed) < MaxLen
    /\ \E out \in {feed(gen, Some(x))} : \E start \in {Idle(gen)} :
           /\ gen' = out.g
           /\ panic' = out.panic
           /\ ret' = out.ret
           /\ call' = "some"
           /\ fed' = IF start THEN << x >> ELSE Append(fed, x)
           /\ reused' = IF start THEN (reused \/ fed # << >>) ELSE reused
           /\ outs' = (IF start THEN << >> ELSE outs) \o out.ret
           /\ dnoms' = (IF start THEN << >> ELSE dnoms)
                          \o (IF out.ret # None THEN << gen.dnom >> ELSE << >>)
           /\ sums' = (IF start THEN << >> ELSE sums)
                          \o (IF out.ret # None THEN << gen.sum >> ELSE << >>)
           /\ warm' = (IF start THEN 0 ELSE warm)
                          + (IF out.panic = "none" /\ out.ret = None THEN 1 ELSE 0)
           /\ nones' = IF start THEN 0 ELSE nones
           /\ drained' = IF start THEN 0 ELSE drained
    /\ UNCHANGED << origin, itervars, imgvars, auxvars >>

\* generator.feed(None)
FeedNone ==
    /\ panic = "none"
    /\ \E out \in {feed(gen, None)} :
           /\ gen' = out.g
           /\ panic' = out.panic
           /\ ret' = out.ret
           /\ call' = "none"
           /\ outs' = outs \o out.ret
           /\ dnoms' = dnoms \o (IF out.ret # None THEN << gen.dnom >> ELSE << >>)
           /\ sums' = sums \o (IF out.ret # None THEN << gen.sum >> ELSE << >>)
           /\ nones' = IF Idle(gen) THEN nones ELSE nones + 1
           /\ drained' = IF out.ret # None THEN drained + 1 ELSE drained
    /\ UNCHANGED << origin, fed, warm, reused, itervars, imgvars, auxvars >>

\* StackBlur::with_ops(r, generator.into_ops()): the deque is recycled
Recycle(r) ==
    /\ panic = "none"
    /\ gen' = with_ops(r, into_ops(gen))
    /\ origin' = Origin(gen.ops, r, gen.radius, ~Idle(gen))
    /\ fed' = << >>
    /\ outs' = << >>
    /\ dnoms' = << >>
    /\ sums' = << >>
    /\ warm' = 0
    /\ nones' = 0
    /\ drained' = 0
    /\ reused' = FALSE
    /\ call' = "new"
    /\ ret' = None
    /\ panic' = "none"
    /\ UNCHANGED << itervars, imgvars, auxvars >>

Next ==
    \/ \E x \in Samples : FeedSome(x)
    \/ FeedNone
    \/ \E r \in Radii : Recycle(r)

Spec == Init /\ [][Next]_vars


\* ------------------------------------------------- StackBlurIter as a system
Options == {None} \cup {Some(x) : x \in Samples}

\* the inner iterators: every script of at most MaxLen items
Scripts == UNION {[1 .. n -> Options] : n \in 0 .. MaxLen}

InitIter ==
    /\ \E r \in Radii : \E q \in {<< >>, LongOps} : \E it \in Scripts :
          /\ gen = StackBlurIter_new(it, r, q).generator
          /\ origin = Origin(q, r, -1, FALSE)
          /\ script = it
          /\ iter = it
    /\ resetting = FALSE
    /\ ends = 0
    /\ fed = << >>
    /\ outs = << >>
    /\ dnoms = << >>
    /\ sums = << >>
    /\ warm = 0
    /\ nones = 0
    /\ drained = 0
    /\ reused = FALSE
    /\ call = "new"
    /\ ret = None
    /\ panic = "none"
    /\ NoImage
    /\ NoAux

\* blur.next(): fed and outs are the samples pulled and the outputs yielded
\* since next() last returned None
IterNext ==
    /\ panic = "none"
    /\ ends <= Len(script)
    /\ \E res \in {next([iter |-> iter, generator |-> gen, resetting |-> resetting])} :
       \E start \in {call = "new" \/ ret = None} :
           /\ gen' = res.self.generator
           /\ iter' = res.self.iter
           /\ resetting' = res.self.resetting
           /\ ret' = res.ret
           /\ panic' = res.panic
           /\ call' = "next"
           /\ fed' = (IF start THEN << >> ELSE fed) \o res.taken
           /\ outs' = (IF start THEN << >> ELSE outs) \o res.ret
           /\ ends' = IF res.panic = "none" /\ res.ret = None THEN ends + 1 ELSE ends
           /\ reused' = (reused \/ (start /\ fed # << >>))
    /\ UNCHANGED << origin, script, dnoms, sums, warm, nones, drained, imgvars, auxvars >>

NextIter == IterNext

SpecIter == InitIter /\ [][NextIter]_vars

\* ------------------------------------------------- reference definitions
Abs(n) == IF n < 0 THEN -n ELSE n

\* the current sequence has been blurred to its end
Finished == Idle(gen) /\ fed # << >>

\* the tent weight of input position j for output position p, 0 out of reach
Weight(r, p, j) == IF Abs(j - p) <= r THEN r + 1 - Abs(j - p) ELSE 0

\* S_p: the weighted sum of the in-range samples xs[j .. Len(xs)] around p
RECURSIVE TentSum(_, _, _, _)
TentSum(r, xs, p, j) ==
    IF j > Len(xs) THEN 0
    ELSE Weight(r, p, j) * xs[j] + TentSum(r, xs, p, j + 1)

\* D_p: the sum of the same weights over the in-range positions j .. n
RECURSIVE TentDen(_, _, _, _)
TentDen(r, n, p, j) ==
    IF j > n THEN 0 ELSE Weight(r, p, j) + TentDen(r, n, p, j + 1)

\* a sample was fed while the generator was draining: the documented misuse
Misuse == call = "some" /\ drained > 0

\* ----------------------------------------------------------------- C1
\* C1: feeding N samples and then feed(None) until it returns None yields
\* exactly N outputs: no call of such a sequence panics, there are never more
\* outputs than samples fed so far, and exactly as many once the generator is
\* back to idle and feed(None) returns None.
Thm_C1_OutputCount ==
    /\ ~Misuse => panic = "none"
    /\ panic = "none" =>
        /\ Len(outs) <= Len(fed)
        /\ Finished => Len(outs) = Len(fed)
        /\ (call = "none" /\ ret = None /\ fed # << >>) => Len(outs) = Len(fed)

Wit_C1_OutputCount ==
    /\ panic = "none" /\ call = "none" /\ ret = None
    /\ gen.radius = MaxRadius
    /\ Len(fed) = MaxLen /\ Len(outs) = MaxLen

\* ----------------------------------------------------------------- C2
\* C2: the p-th output is the truncating quotient of the tent-weighted sum of
\* the in-range samples by the sum of the in-range weights.
Thm_C2_TruncatedTent ==
    panic = "none" =>
        \A p \in 1 .. Len(outs) :
            outs[p] = TentSum(gen.radius, fed, p, 1) \div TentDen(gen.radius, Len(fed), p, 1)

Wit_C2_TruncatedTent ==
    /\ panic = "none" /\ Finished
    /\ gen.radius = MaxRadius
    /\ Len(outs) = MaxLen
    /\ \E p \in 1 .. Len(outs) : outs[p] > 0 /\ outs[p] < MaxVal
    /\ outs[1] # outs[Len(outs)]

\* ----------------------------------------------------------------- C3
\* C3: with radius 0 every output equals the input at its position and is
\* divided by a denominator of 1.
Thm_C3_RadiusZero ==
    gen.radius = 0 =>
        /\ panic = "none"
        /\ \A p \in 1 .. Len(outs) : outs[p] = fed[p] /\ dnoms[p] = 1
        /\ Finished => outs = fed

Wit_C3_RadiusZero ==
    /\ gen.radius = 0 /\ Finished /\ panic = "none"
    /\ Len(fed) = MaxLen /\ outs = fed
    /\ fed[1] = MaxVal /\ fed[2] = 0 /\ fed[MaxLen] = 1

\* ----------------------------------------------------------------- C4
\* C4: feed(None) on an idle generator returns None and changes nothing of the
\* generator, however often it is repeated; an empty input gives no output.
Thm_C4_IdleNone ==
    /\ [](fed = << >> => outs = << >>)
    /\ [][(panic = "none" /\ Idle(gen) /\ call' = "none")
            => (gen' = gen /\ ret' = None /\ panic' = "none" /\ outs' = outs)]_vars

Wit_C4_IdleNone ==
    /\ call = "none" /\ ret = None /\ panic = "none"
    /\ Idle(gen) /\ fed = << >> /\ outs = << >>
    /\ origin.given /\ gen.ops = LongOps

\* ----------------------------------------------------------------- C5
\* C5: for radius >= 1, a sample fed after feed(None) has returned an output
\* and before the generator is idle again fails the assertion.
Thm_C5_MisuseAsserts ==
    (gen.radius >= 1 /\ Misuse) => panic = "fed item is not being consumed"

Wit_C5_MisuseAsserts ==
    /\ gen.radius = MaxRadius /\ Misuse
    /\ panic = "fed item is not being consumed"
    /\ gen.state.tag = "Main" /\ gen.state.trailing = 0

\* ------------------------------------------------------ the fresh generator
\* the calls of the current sequence: its samples, then its feed(None)s
Calls == [i \in 1 .. (Len(fed) + nones) |-> IF i <= Len(fed) THEN Some(fed[i]) ELSE None]

\* the calls applied in order, from the run acc, the outputs collected
RECURSIVE FeedAll(_, _)
FeedAll(acc, calls) ==
    IF calls = << >> \/ acc.panic # "none" THEN acc
    ELSE LET out == feed(acc.g, Head(calls))
         IN  FeedAll([g |-> out.g, outs |-> acc.outs \o out.ret, panic |-> out.panic],
                     Tail(calls))

\* the same calls made on a generator freshly created by new(radius)
Fresh == FeedAll([g |-> new(gen.radius), outs |-> << >>, panic |-> "none"], Calls)

\* ----------------------------------------------------------------- C6
\* C6: a generator that has drained a sequence gives, for the next sequence,
\* the outputs of a fresh generator and is in the fresh generator's state:
\* nothing of the earlier sequence is left in it.
Thm_C6_ReuseAfterDrain ==
    (reused /\ panic = "none") =>
        \A fresh \in {Fresh} :
            /\ fresh.panic = "none"
            /\ outs = fresh.outs
            /\ gen.state = fresh.g.state
            /\ ~Idle(gen) => gen = fresh.g

Wit_C6_ReuseAfterDrain ==
    /\ reused /\ ~origin.given /\ panic = "none" /\ Finished
    /\ gen.radius = MaxRadius /\ Len(fed) = MaxLen - 1
    /\ \E p \in 1 .. Len(outs) : outs[p] # 0

\* ----------------------------------------------------------------- C7
\* C7: the outputs of a generator created by with_ops(radius, q) are those of
\* new(radius), whatever the deque q holds and wherever it comes from.
Thm_C7_OpsIrrelevant ==
    (origin.given /\ panic = "none") =>
        \A fresh \in {Fresh} :
            /\ fresh.panic = "none"
            /\ outs = fresh.outs
            /\ Idle(gen) <=> Idle(fresh.g)

Wit_C7_OpsIrrelevant ==
    /\ origin.hard
    /\ panic = "none" /\ Finished
    /\ gen.radius = 1 /\ Len(fed) = MaxLen
    /\ \E p \in 1 .. Len(outs) : outs[p] # 0

\* ----------------------------------------------------------------- C8
\* C8: within a sequence feed(Some) returns None for exactly the first
\* radius+1 samples and an output for every later one, and no feed(None)
\* returns None before the sequence is finished.
Min(a, b) == IF a < b THEN a ELSE b

Thm_C8_WarmupLength ==
    /\ (call = "some" /\ ~Misuse) =>
          /\ panic = "none"
          /\ (ret = None) <=> (Len(fed) <= gen.radius + 1)
    /\ (call = "none" /\ ret = None) => Idle(gen)
    /\ panic = "none" =>
          /\ warm = Min(Len(fed), gen.radius + 1)
          /\ drained = nones

Wit_C8_WarmupLength ==
    /\ call = "some" /\ ret # None /\ panic = "none"
    /\ gen.radius = MaxRadius /\ warm = MaxRadius + 1
    /\ Len(fed) = MaxLen /\ Len(outs) = MaxLen - (MaxRadius + 1)

RECURSIVE FirstRun(_)
FirstRun(it) ==
    IF it = << >> \/ Head(it) = None THEN << >>
    ELSE Head(it) \o FirstRun(Tail(it))

\* C10: StackBlurIter yields exactly as many items as its inner iterator gives
\* before its first None and then yields None; for an empty inner iterator the
\* first next() returns None.
Thm_C10_IterCount ==
    /\ ends = 0 =>
          /\ panic = "none"
          /\ Len(outs) <= Len(FirstRun(script))
          /\ call = "next" => ret # None
    /\ (ends = 1 /\ ret = None) =>
          /\ call = "next"
          /\ Len(outs) = Len(FirstRun(script))
          /\ fed = FirstRun(script)

Wit_C10_IterCount ==
    /\ ends = 1 /\ ret = None /\ call = "next" /\ panic = "none"
    /\ gen.radius = MaxRadius
    /\ Len(FirstRun(script)) = MaxLen /\ fed = FirstRun(script) /\ Len(outs) = MaxLen
    /\ \E p \in 1 .. Len(outs) : outs[p] # 0

\* ---------------------------------------------------------------- C11
\* the items the inner iterator gives after its first None
RECURSIVE DropRun(_)
DropRun(it) ==
    IF it = << >> THEN << >>
    ELSE IF Head(it) = None THEN Tail(it)
    ELSE DropRun(Tail(it))

\* the k-th run: the items between the (k-1)-th and the k-th None
RECURSIVE NthRun(_, _)
NthRun(it, k) == IF k <= 1 THEN FirstRun(it) ELSE NthRun(DropRun(it), k - 1)

\* the samples xs blurred alone: fed to new(r) and drained
BlurAlone(r, xs) ==
    FeedAll([g |-> new(r), outs |-> << >>, panic |-> "none"],
            [i \in 1 .. (Len(xs) + r + 2) |-> IF i <= Len(xs) THEN Some(xs[i]) ELSE None])

\* C11: over an inner iterator that gives items again after a None, every run
\* of k items between two Nones makes StackBlurIter yield k outputs and then
\* one None, and the outputs of a run are those of blurring that run alone.
Thm_C11_RunsApart ==
    /\ panic = "none"
    /\ (call = "next" /\ ret # None) =>
          \A run \in {NthRun(script, ends + 1)} :
             /\ Len(fed) <= Len(run) /\ fed = SubSeq(run, 1, Len(fed))
             /\ Len(outs) <= Len(run)
             /\ outs = SubSeq(BlurAlone(gen.radius, run).outs, 1, Len(outs))
    /\ (call = "next" /\ ret = None) =>
          \A alone \in {BlurAlone(gen.radius, fed)} :
             /\ fed = NthRun(script, ends)
             /\ Len(outs) = Len(fed)
             /\ alone.panic = "none" /\ outs = alone.outs

Wit_C11_RunsApart ==
    /\ call = "next" /\ ret = None /\ panic = "none" /\ ends = 2
    /\ gen.radius = MaxRadius
    /\ Len(FirstRun(script)) = 2 /\ FirstRun(script)[1] # 0
    /\ Len(fed) = MaxLen - 3 /\ fed = NthRun(script, 2)
    /\ Len(outs) = Len(fed) /\ outs[1] # 0

\* ---------------------------------------------------------------- C12
\* C12: after every feed call on a generator created by new(radius) the window
\* holds at most 2*radius+2 samples.
Thm_C12_WindowBound ==
    ~origin.given => Len(gen.ops) <= 2 * gen.radius + 2

Wit_C12_WindowBound ==
    /\ ~origin.given /\ gen.radius = MaxRadius
    /\ call = "some" /\ ret # None /\ panic = "none"
    /\ Len(gen.ops) = 2 * MaxRadius + 2

\* ---------------------------------------------------------------- C13
\* C13: whenever an output is emitted, dnom is the sum of the tent weights of
\* exactly the input positions in reach of the emitted position, and sum is
\* the sum of the samples at these positions under the same weights.
Thm_C13_DnomMatchesSum ==
    panic = "none" =>
        /\ Len(dnoms) = Len(outs) /\ Len(sums) = Len(outs)
        /\ \A p \in 1 .. Len(outs) :
              /\ dnoms[p] = TentDen(gen.radius, Len(fed), p, 1)
              /\ sums[p] = TentSum(gen.radius, fed, p, 1) % Modulus
              /\ outs[p] = Div(sums[p], dnoms[p])

Wit_C13_DnomMatchesSum ==
    /\ panic = "none" /\ Finished
    /\ gen.radius = MaxRadius /\ Len(outs) = MaxLen
    /\ dnoms[1] < dnoms[2] /\ dnoms[MaxLen] < dnoms[MaxLen - 1]
    /\ sums[1] > sums[2] /\ sums[MaxLen] > 0

\* ---------------------------------------------------------------- C14
\* C14: a constant sequence of c is blurred to outputs that all equal c, for
\* every radius and length, as long as c times the largest denominator fits
\* the sample width.
Thm_C14_ConstantInput ==
    \A c \in Samples :
        ( /\ panic = "none"
          /\ \A i \in 1 .. Len(fed) : fed[i] = c
          /\ c * (gen.radius + 1) * (gen.radius + 1) < Modulus )
        => \A p \in 1 .. Len(outs) : outs[p] = c

Wit_C14_ConstantInput ==
    /\ panic = "none" /\ Finished
    /\ gen.radius = MaxRadius /\ Len(fed) = MaxLen
    /\ \A i \in 1 .. Len(fed) : fed[i] = MaxVal
    /\ outs = fed

\* ---------------------------------------------------------------- C15
Reverse(xs) == [i \in 1 .. Len(xs) |-> xs[Len(xs) + 1 - i]]

\* C15: blurring the reversed input gives the reverse of blurring the input,
\* element for element.
Thm_C15_Mirror ==
    (panic = "none" /\ Finished) =>
        \A mirror \in {BlurAlone(gen.radius, Reverse(fed))} :
            /\ mirror.panic = "none"
            /\ mirror.outs = Reverse(outs)

Wit_C15_Mirror ==
    /\ panic = "none" /\ Finished
    /\ gen.radius = MaxRadius /\ Len(fed) = MaxLen
    /\ fed # Reverse(fed) /\ outs # Reverse(outs)
    /\ outs[1] # 0 /\ outs[MaxLen] # 0

\* ------------------------------------------- a slice fed to the generator
\* the slices fed: nine samples, either zero except for spikes at both ends
\* and in the middle, or all of one value
Spikes == {0, 10, 20, 30}
SpikeInputs == {<< a, 0, 0, 0, b, 0, 0, 0, c >> : a \in Spikes, b \in Spikes, c \in Spikes}
FlatInputs == {<< v, v, v, v, v, v, v, v, v >> : v \in Spikes}
SliceInputs == SpikeInputs \cup FlatInputs

InitSlice ==
    /\ \E r \in Radii : \E xs \in SliceInputs :
          /\ gen = new(r)
          /\ origin = Origin(<< >>, r, -1, FALSE)
          /\ script = [i \in 1 .. Len(xs) |-> Some(xs[i])]
          /\ iter = [i \in 1 .. Len(xs) |-> Some(xs[i])]
    /\ resetting = FALSE
    /\ ends = 0
    /\ fed = << >>
    /\ outs = << >>
    /\ dnoms = << >>
    /\ sums = << >>
    /\ warm = 0
    /\ nones = 0
    /\ drained = 0
    /\ reused = FALSE
    /\ call = "new"
    /\ ret = None
    /\ panic = "none"
    /\ NoImage
    /\ NoAux

\* the caller feeds the next sample of the slice, or None once the slice is
\* exhausted, until feed(None) returns None
FeedNext ==
    /\ panic = "none"
    /\ ~(call = "none" /\ ret = None)
    /\ \E polled \in {InnerNext(iter)} : \E out \in {feed(gen, polled.item)} :
           /\ iter' = polled.it
           /\ gen' = out.g
           /\ panic' = out.panic
           /\ ret' = out.ret
           /\ call' = IF polled.item = None THEN "none" ELSE "some"
           /\ fed' = fed \o polled.item
           /\ outs' = outs \o out.ret
           /\ dnoms' = dnoms \o (IF out.ret # None THEN << gen.dnom >> ELSE << >>)
           /\ sums' = sums \o (IF out.ret # None THEN << gen.sum >> ELSE << >>)
           /\ warm' = warm + (IF polled.item # None /\ out.panic = "none" /\ out.ret = None
                               THEN 1 ELSE 0)
           /\ nones' = IF polled.item = None /\ ~Idle(gen) THEN nones + 1 ELSE nones
           /\ drained' = IF polled.item = None /\ out.ret # None THEN drained + 1 ELSE drained
    /\ UNCHANGED << origin, reused, script, resetting, ends, imgvars, auxvars >>

NextSlice == FeedNext

SpecSlice == InitSlice /\ [][NextSlice]_vars

\* ---------------------------------------------------------------- C16
ScenarioInput == << 10, 0, 0, 0, 20, 0, 0, 0, 30 >>
ScenarioOutput == << 6, 2, 0, 5, 10, 5, 0, 7, 20 >>
ScenarioDnoms == << 3, 4, 4, 4, 4, 4, 4, 4, 3 >>

\* the slice being fed is the scenario's, with the scenario's radius
InScenario ==
    /\ gen.radius = 1
    /\ script = [i \in 1 .. Len(ScenarioInput) |-> Some(ScenarioInput[i])]

\* C16: the input [10, 0, 0, 0, 20, 0, 0, 0, 30] with radius 1 is blurred to
\* [6, 2, 0, 5, 10, 5, 0, 7, 20]; the first and the last output are divided
\* by 3, the outputs between them by 4.
Thm_C16_Scenario ==
    InScenario =>
        /\ panic = "none"
        /\ Len(outs) <= Len(ScenarioOutput) /\ Len(dnoms) = Len(outs)
        /\ outs = SubSeq(ScenarioOutput, 1, Len(outs))
        /\ dnoms = SubSeq(ScenarioDnoms, 1, Len(outs))
        /\ (call = "none" /\ ret = None) => (fed = ScenarioInput /\ outs = ScenarioOutput)

Wit_C16_Scenario ==
    /\ InScenario /\ panic = "none" /\ call = "none" /\ ret = None
    /\ fed = ScenarioInput /\ outs = ScenarioOutput /\ dnoms = ScenarioDnoms

\* ---------------------------------------------------------------- C17
\* the exact weighted sum of output position p
ExactSum(p) == TentSum(gen.radius, fed, p, 1)

\* C17: at every emission sum is congruent to the exact weighted sum S_p
\* modulo 2^w, and the output is the exact truncated-tent quotient whenever
\* S_p is below 2^w, although rate wraps below zero and sum wraps at
\* positions whose S_p is not below 2^w; no call fails.
Thm_C17_WrapCancels ==
    /\ panic = "none"
    /\ \A p \in 1 .. Len(outs) :
          /\ sums[p] = ExactSum(p) % Modulus
          /\ ExactSum(p) < Modulus =>
                outs[p] = ExactSum(p) \div TentDen(gen.radius, Len(fed), p, 1)

Wit_C17_WrapCancels ==
    /\ panic = "none" /\ call = "some" /\ ret # None
    /\ gen.rate >= Modulus \div 2
    /\ \E p \in 1 .. Len(outs) : \E q \in 1 .. Len(outs) :
          /\ p < q
          /\ ExactSum(p) >= Modulus
          /\ ExactSum(q) < Modulus /\ outs[q] > 0
          /\ outs[q] = ExactSum(q) \div TentDen(gen.radius, Len(fed), q, 1)

\* ------------------------------------- the channels of blur_argb, blur_srgb
\* the width of a channel: StackBlurrableU32 holds a u32
U32Bits == 32

\* the largest byte of a pixel (argb.to_be_bytes())
ByteMax == 255

\* the largest value srgb8_to_rgb12 gives: 12-bit linear light
Rgb12Max == 4095

\* the radii up to which blur_argb and blur_srgb are documented to give good
\* results
ArgbRadiusLimit == 4096
SrgbRadiusLimit == 1536

Bytes == 0 .. ByteMax

\* faulty variant of from_u32_cvt: the byte is widened to 12 bits
Mut_from_u32_cvt_Wide(byte) == byte * 16 + byte \div 16

\* Argb::from_u32: cvt = |i| StackBlurrableU32(i as u32)
from_u32_cvt(byte) == byte

\* the largest element of a non-empty set of numbers
MaxOf(S) == CHOOSE m \in S : \A x \in S : x <= m

\* the largest channel value blur_argb feeds to the generator
ArgbChannelMax == MaxOf({from_u32_cvt(byte) : byte \in Bytes})

\* the largest channel value blur_srgb feeds to the generator: the colour
\* channels go through srgb8_to_rgb12, alpha is the byte itself
SrgbChannelMax == MaxOf({Rgb12Max, ByteMax})

\* 2^bits divided by v: << quotient, remainder >>, computed bit by bit so that
\* no intermediate value exceeds the quotient
RECURSIVE QuotPow2(_, _)
QuotPow2(bits, v) ==
    IF bits = 0 THEN << 1 \div v, 1 % v >>
    ELSE LET half == QuotPow2(bits - 1, v)
         IN  << 2 * half[1] + (2 * half[2]) \div v, (2 * half[2]) % v >>

\* v * m < 2^bits
FitsWidth(v, m, bits) ==
    IF v = 0 THEN TRUE
    ELSE LET quot == QuotPow2(bits, v)
         IN  IF quot[2] = 0 THEN m < quot[1] ELSE m <= quot[1]

\* the largest denominator of radius r: the sum of the weights of a full kernel
FullKernel(r) == (r + 1) * (r + 1)

\* the largest sample of xs, 0 for an empty xs
MaxSample(xs) == IF xs = << >> THEN 0 ELSE MaxOf({xs[i] : i \in 1 .. Len(xs)})

\* channels of at most v in a width of bits bits cannot overflow at radius r:
\* v times the full kernel is below 2^bits
NoOverflow(v, r, bits) == FitsWidth(v, FullKernel(r), bits)

\* every output emitted so far obeys the criterion: no denominator exceeds
\* the full kernel, no exact sum exceeds the largest sample times its
\* denominator, and when NoOverflow holds of the samples fed every output is
\* the exact quotient
CriterionHolds ==
    \A p \in 1 .. Len(outs) :
        /\ dnoms[p] <= FullKernel(gen.radius)
        /\ ExactSum(p) <= MaxSample(fed) * dnoms[p]
        /\ NoOverflow(MaxSample(fed), gen.radius, SampleBits) =>
              /\ ExactSum(p) < Modulus
              /\ outs[p] = ExactSum(p) \div dnoms[p]

\* a full kernel of the largest sample has been blurred
WorstCase ==
    \E p \in 1 .. Len(outs) :
        /\ dnoms[p] = FullKernel(gen.radius)
        /\ ExactSum(p) = MaxSample(fed) * FullKernel(gen.radius)

\* ---------------------------------------------------------------- C18
ArgbFits == \A r \in 0 .. ArgbRadiusLimit : NoOverflow(ArgbChannelMax, r, U32Bits)

\* C18: blur_argb does not overflow for any radius up to 4096: 255 times the
\* full kernel of such a radius is below 2^32, and channels whose largest
\* value times the full kernel is below 2^w are blurred to the exact
\* truncated-tent quotients.
Thm_C18_ArgbNoOverflow ==
    /\ ArgbFits
    /\ panic = "none"
    /\ CriterionHolds

Wit_C18_ArgbNoOverflow ==
    /\ panic = "none" /\ call = "none" /\ ret = None
    /\ gen.radius >= 1 /\ MaxSample(fed) > 0
    /\ NoOverflow(MaxSample(fed), gen.radius, SampleBits)
    /\ WorstCase
    /\ \E p \in 1 .. Len(outs) : outs[p] = MaxSample(fed) /\ dnoms[p] = FullKernel(gen.radius)

\* ---------------------------------------------------------------- C19
SrgbFits == \A r \in 0 .. SrgbRadiusLimit : NoOverflow(SrgbChannelMax, r, U32Bits)

\* C19 as stated: blur_srgb does not overflow for any radius up to 1536: 4095
\* times the full kernel of such a radius is below 2^32, and every output is
\* the exact truncated-tent quotient.
Orig_C19_SrgbNoOverflow ==
    /\ SrgbFits
    /\ panic = "none"
    /\ CriterionHolds

\* ------------------------------------------------------------------ blur
\* the width of a pixel's channel: Argb::to_u32 casts each channel as u8
ChannelBits == 8

\* faulty variant of to_u32_cvt: the channel is cut to a quarter of its width
Mut_to_u32_cvt_Narrow(x) == x % Pow2(ChannelBits \div 4)

\* Argb::to_u32: cvt = |i: StackBlurrableU32| i.0 as u8
to_u32_cvt(x) == x % Pow2(ChannelBits)

\* faulty variant of Reader: the iterator is one pixel behind and gives the
\* first pixel twice
Mut_Reader_Behind(ln, rd) ==
    [i \in 1 .. (Len(ln) - rd + 1) |->
        Some(from_u32_cvt(ln[IF rd + i > 2 THEN rd - 2 + i ELSE 1]))]

\* read.map(&mut to_blurrable): the pixels of the line not yet read, as they
\* are in the buffer when the iterator is polled, rd being the next to read
Reader(ln, rd) == [i \in 1 .. (Len(ln) - rd + 1) |-> Some(from_u32_cvt(ln[rd - 1 + i]))]

\* write.for_each(|place| *place = to_pixel(blur.next().unwrap())): the places
\* of the line are written in order, each with the next output of the iterator
\* (read lists, for each place written, how many pixels of the line the
\* iterator had read by then)
RECURSIVE WritePlaces(_, _, _, _, _)
WritePlaces(ln, place, rd, self, read) ==
    IF place > Len(ln)
    THEN [line |-> ln, ops |-> into_ops(self.generator), panic |-> "none", read |-> read]
    ELSE LET res == next([self EXCEPT !.iter = Reader(ln, rd)])
         IN  IF res.panic # "none"
             THEN [line |-> ln, ops |-> into_ops(res.self.generator), panic |-> res.panic,
                   read |-> read]
             ELSE IF res.ret = None
             THEN [line |-> ln, ops |-> into_ops(res.self.generator),
                   panic |-> "unwrap on None", read |-> read]
             ELSE WritePlaces([ln EXCEPT ![place] = to_u32_cvt(res.ret[1])], place + 1,
                              rd + Len(res.taken), res.self,
                              Append(read, rd - 1 + Len(res.taken)))

\* the body of blur's loop for one row or column
BlurLine(ln, radius, ops) ==
    WritePlaces(ln, 1, 1, StackBlurIter_new(<< >>, radius, ops), << >>)

\* what one turn of the loop did to its line
Rewrite(ln, res) == [before |-> ln, after |-> res.line, read |-> res.read]

Height(b) == Len(b)
Width(b) == Len(b[1])

\* buffer.iter_cols(): column j, top to bottom
Column(b, j) == [i \in 1 .. Height(b) |-> b[i][j]]

\* the buffer with column j replaced
WithColumn(b, j, col) == [i \in 1 .. Height(b) |-> [b[i] EXCEPT ![j] = col[i]]]

\* the buffers handed to blur: zero except for one pixel of value v
OnePixel(h, w, i, j, v) ==
    [y \in 1 .. h |-> [x \in 1 .. w |-> IF y = i /\ x = j THEN v ELSE 0]]

InitBlur ==
    /\ \E r \in Radii : \E h \in 1 .. MaxDim : \E w \in 1 .. MaxDim :
       \E i \in 1 .. h : \E j \in 1 .. w : \E v \in 1 .. MaxPixel :
          /\ gen = with_ops(r, << >>)
          /\ origin = Origin(<< >>, r, -1, FALSE)
          /\ image = OnePixel(h, w, i, j, v)
          /\ buf = OnePixel(h, w, i, j, v)
    /\ pass = "rows"
    /\ line = 1
    /\ rewrite = << >>
    /\ NoAux
    /\ script = << >>
    /\ iter = << >>
    /\ resetting = FALSE
    /\ ends = 0
    /\ fed = << >>
    /\ outs = << >>
    /\ dnoms = << >>
    /\ sums = << >>
    /\ warm = 0
    /\ nones = 0
    /\ drained = 0
    /\ reused = FALSE
    /\ call = "new"
    /\ ret = None
    /\ panic = "none"

\* faulty variant of BlurRow: the columns start after the first row
Mut_BlurRow_OneRow ==
    /\ panic = "none"
    /\ pass = "rows"
    /\ \E res \in {BlurLine(buf[line], gen.radius, into_ops(gen))} :
           /\ buf' = [buf EXCEPT ![line] = res.line]
           /\ rewrite' = << Rewrite(buf[line], res) >>
           /\ gen' = with_ops(gen.radius, res.ops)
           /\ panic' = res.panic
    /\ pass' = "cols" /\ line' = 1
    /\ UNCHANGED << origin, histvars, call, ret, itervars, image, auxvars >>

\* one turn of the loop over rows.chain(cols) for a row
BlurRow ==
    /\ panic = "none"
    /\ pass = "rows"
    /\ \E res \in {BlurLine(buf[line], gen.radius, into_ops(gen))} :
           /\ buf' = [buf EXCEPT ![line] = res.line]
           /\ rewrite' = << Rewrite(buf[line], res) >>
           /\ gen' = with_ops(gen.radius, res.ops)
           /\ panic' = res.panic
    /\ IF line < Height(buf)
       THEN pass' = "rows" /\ line' = line + 1
       ELSE pass' = "cols" /\ line' = 1
    /\ UNCHANGED << origin, histvars, call, ret, itervars, image, auxvars >>

\* one turn of the loop over rows.chain(cols) for a column
BlurCol ==
    /\ panic = "none"
    /\ pass = "cols"
    /\ \E res \in {BlurLine(Column(buf, line), gen.radius, into_ops(gen))} :
           /\ buf' = WithColumn(buf, line, res.line)
           /\ rewrite' = << Rewrite(Column(buf, line), res) >>
           /\ gen' = with_ops(gen.radius, res.ops)
           /\ panic' = res.panic
    /\ IF line < Width(buf)
       THEN pass' = "cols" /\ line' = line + 1
       ELSE pass' = "done" /\ line' = 0
    /\ UNCHANGED << origin, histvars, call, ret, itervars, image, auxvars >>

NextBlur ==
    \/ BlurRow
    \/ BlurCol

SpecBlur == InitBlur /\ [][NextBlur]_vars

\* ---------------------------------------------------------------- C20
RECURSIVE SumSeq(_)
SumSeq(xs) == IF xs = << >> THEN 0 ELSE Head(xs) + SumSeq(Tail(xs))

\* the total of all pixels of a buffer
Total(b) == SumSeq([i \in 1 .. Height(b) |-> SumSeq(b[i])])

\* the row and the column of the bright pixel
BrightRow == CHOOSE i \in 1 .. Height(image) : SumSeq(image[i]) # 0
BrightCol == CHOOSE j \in 1 .. Width(image) : image[BrightRow][j] # 0

\* every output in reach of the bright pixel has a full kernel: the pixel is
\* at least 2*radius away from every edge
Inland ==
    /\ BrightRow - 1 >= 2 * gen.radius /\ Height(image) - BrightRow >= 2 * gen.radius
    /\ BrightCol - 1 >= 2 * gen.radius /\ Width(image) - BrightCol >= 2 * gen.radius

Zeros(n) == [i \in 1 .. n |-> Default]

\* a feed call has returned: the step from the state before it to the state
\* after it
Returned == panic = "none" /\ panic' = "none" /\ call' \in {"some", "none"}

\* the sample the call was given, when it was given one
Given == fed'[Len(fed')]

\* rate after the front has been added and the middle sample subtracted twice
RateAfter(front, mid) == Sub(Add(gen.rate, front), Mul(mid, 2))

\* C24: a feed call does work that does not depend on the radius. A call that
\* emits removes the front of the window, appends the sample it was given if
\* any, and updates rate and sum from the front, one other sample of the
\* window and the sample given; a warm-up call appends its sample and folds
\* it into sum and rate; feed(None) on an idle generator does nothing. Only
\* the first sample of a sequence resets the window, to radius+1 zero
\* samples followed by the sample.
Thm_C24_ConstantWork ==
    [][Returned =>
         IF call' = "some" /\ Idle(gen)
         THEN gen'.ops = Append(Zeros(gen.radius + 1), Given)
         ELSE IF ret' = None
         THEN IF call' = "none" THEN gen' = gen
              ELSE /\ gen'.ops = Append(gen.ops, Given)
                   /\ gen'.rate = Add(gen.rate, Given)
                   /\ gen'.sum = Add(gen.sum, Mul(Given, gen.radius + 1 - gen.state.index))
         ELSE \A rate \in {RateAfter(gen.ops[1], gen.ops[gen.radius + 2])} :
                 IF call' = "none"
                 THEN /\ gen'.ops = Tail(gen.ops)
                      /\ gen'.rate = rate
                      /\ gen'.sum = Add(gen.sum, rate)
                 ELSE /\ gen'.ops = Append(Tail(gen.ops), Given)
                      /\ gen'.rate = Add(rate, Given)
                      /\ gen'.sum = Add(Add(gen.sum, rate), Given)]_vars

Wit_C24_ConstantWork ==
    /\ panic = "none" /\ call = "some" /\ ret # None
    /\ gen.radius = MaxRadius /\ Len(fed) = MaxLen
    /\ Len(gen.ops) = 2 * MaxRadius + 2
    /\ gen.ops[Len(gen.ops)] = fed[Len(fed)] /\ fed[Len(fed)] # 0
    /\ reused /\ origin.given

\* ---------------------------------------------------------------- C27
\* a feed call has returned an output
Emitted == Returned /\ ret' # None

\* rate as main leaves it before the sample given, if any, is accepted
RateStep == IF call' = "some" THEN Sub(gen'.rate, Given) ELSE gen'.rate

\* C27 as stated: in every emitting step rate grows by the front of the
\* window and shrinks by twice window[radius], the window indexed from 0 as
\* it stands before its front is removed.
Orig_C27_RateBeforePop ==
    [][Emitted => RateStep = RateAfter(gen.ops[1], gen.ops[gen.radius + 1])]_vars

\* C27: in every emitting step rate grows by the front of the window and
\* shrinks by twice window[radius], the window indexed from 0 as it stands
\* after its front has been removed, and the new rate is added to sum.
Thm_C27_RateAfterPop ==
    [][Emitted =>
         /\ RateStep = RateAfter(Head(gen.ops), Tail(gen.ops)[gen.radius + 1])
         /\ Sub(gen'.sum, gen.sum) = gen'.rate
         /\ Len(gen'.ops) = Len(gen.ops) - (IF call' = "some" THEN 0 ELSE 1)]_vars

Wit_C27_RateAfterPop ==
    /\ panic = "none" /\ call = "none" /\ ret # None
    /\ gen.radius = MaxRadius /\ Len(fed) = MaxLen /\ drained = 2
    /\ fed[MaxRadius] # fed[MaxRadius + 1]
    /\ gen.rate # 0

\* ---------------------------------------------------------------- C28
\* the warm-up weights folded over the samples: sum of (radius+1-i) * x[i]
RECURSIVE WarmSum(_, _)
WarmSum(radius, xs) ==
    IF xs = << >> THEN 0
    ELSE WarmSum(radius, SubSeq(xs, 1, Len(xs) - 1))
           + (radius + 2 - Len(xs)) * xs[Len(xs)]

\* C28: while a sequence is in its warm-up, after its first k samples
\* (1 <= k <= radius+1), sum is the samples weighted radius+1, radius, ...,
\* rate is their plain sum, dnom is the sum of those weights, and the window
\* is radius+1 zero samples followed by the k samples in order.
Thm_C28_WarmUp ==
    (panic = "none" /\ gen.state.tag = "Preload" /\ gen.state.index >= 1) =>
        \A k \in {gen.state.index} :
           /\ k = Len(fed) /\ k <= gen.radius + 1
           /\ gen.sum = WarmSum(gen.radius, fed) % Modulus
           /\ gen.rate = SumSeq(fed) % Modulus
           /\ gen.dnom = WarmSum(gen.radius, [i \in 1 .. k |-> 1])
           /\ gen.ops = Zeros(gen.radius + 1) \o fed

Wit_C28_WarmUp ==
    /\ panic = "none" /\ gen.state.tag = "Preload"
    /\ gen.radius = MaxRadius /\ gen.state.index = MaxRadius + 1
    /\ fed[1] = 1 /\ fed[MaxRadius + 1] = MaxVal
    /\ reused /\ origin.given

\* ---------------------------------------------------------------- C29
\* C29: the feed call that returns the last output of a sequence, and no
\* earlier one, leaves the generator idle; the next sample fed is then taken
\* as the first of a new sequence, with no feed(None) in between.
Thm_C29_IdleWithLastOutput ==
    [][/\ Emitted => (Idle(gen') <=> Len(outs') = Len(fed'))
       /\ (panic = "none" /\ ret # None /\ Len(outs) = Len(fed) /\ call' = "some")
             => /\ panic' = "none" /\ ret' = None
                /\ fed' = << Given >> /\ outs' = << >>
                /\ gen' = [gen EXCEPT !.ops = Append(Zeros(gen.radius + 1), Given),
                                       !.sum = Mul(Given, gen.radius + 1),
                                       !.rate = Given,
                                       !.dnom = gen.radius + 1,
                                       !.state = Preload(1, 0)]]_vars

Wit_C29_IdleWithLastOutput ==
    /\ panic = "none" /\ call = "some" /\ ret = None
    /\ reused /\ nones = 0 /\ Len(fed) = 1 /\ fed[1] = MaxVal
    /\ gen.radius = MaxRadius /\ gen.state = Preload(1, 0)

\* ---------------------------------------------------------------- C30
\* a line blurred from a copy: its pixels converted, blurred alone by a new
\* generator, and converted back
BlurCopy(radius, ln) ==
    BlurAlone(radius, [i \in 1 .. Len(ln) |-> from_u32_cvt(ln[i])])

\* C30: a row or column rewritten in place by blur ends as the blur of a copy
\* of it, and when place p (from 1) of a line of n pixels is written the
\* iterator has read the first min(p + radius + 1, n) pixels of the line, so
\* every pixel is read before it is written.
Thm_C30_InPlace ==
    (rewrite # << >> /\ panic = "none") =>
        \A w \in {rewrite[1]} : \A copy \in {BlurCopy(gen.radius, w.before)} :
           /\ copy.panic = "none"
           /\ w.after = [p \in 1 .. Len(w.before) |-> to_u32_cvt(copy.outs[p])]
           /\ Len(w.read) = Len(w.before)
           /\ \A p \in 1 .. Len(w.before) :
                 /\ w.read[p] = Min(p + gen.radius + 1, Len(w.before))
                 /\ w.read[p] >= p

Wit_C30_InPlace ==
    /\ rewrite # << >> /\ panic = "none" /\ pass = "done"
    /\ gen.radius = 1
    /\ Len(rewrite[1].before) = MaxDim
    /\ rewrite[1].read[1] < MaxDim
    /\ rewrite[1].before[2] # rewrite[1].after[2]
    /\ rewrite[1].before[2] # rewrite[1].before[3]
    /\ rewrite[1].after[1] # 0

\* ------------------------------------------------- Argb::from_u32 / to_u32
\* a u32 is held as its two 16-bit halves, the upper half first
HalfModulus == Pow2(2 * ChannelBits)

\* faulty variant of to_be_bytes: the bytes are given least significant first
Mut_to_be_bytes_Little(p) ==
    << p[2] % Pow2(ChannelBits), p[2] \div Pow2(ChannelBits),
       p[1] % Pow2(ChannelBits), p[1] \div Pow2(ChannelBits) >>

\* u32::to_be_bytes: the four bytes, most significant first
to_be_bytes(p) ==
    << p[1] \div Pow2(ChannelBits), p[1] % Pow2(ChannelBits),
       p[2] \div Pow2(ChannelBits), p[2] % Pow2(ChannelBits) >>

\* u32::from_be_bytes
from_be_bytes(bs) ==
    << bs[1] * Pow2(ChannelBits) + bs[2], bs[3] * Pow2(ChannelBits) + bs[4] >>

\* Argb::from_u32: let [a, r, g, b] = argb.to_be_bytes(); each byte as u32
from_u32(p) == [c \in 1 .. 4 |-> from_u32_cvt(to_be_bytes(p)[c])]

\* Argb::to_u32: each channel as u8, packed by from_be_bytes
to_u32(self) == from_be_bytes([c \in 1 .. 4 |-> to_u32_cvt(self[c])])

\* the halves the pixels are made of
Halves == {0, 1, 255, 256, 4660, 32767, 32768, 43981, 65280, HalfModulus - 1}

Pixels == {<< hi, lo >> : hi \in Halves, lo \in Halves}

InitArgb ==
    /\ gen = with_ops(0, << >>)
    /\ origin = Origin(<< >>, 0, -1, FALSE)
    /\ fed = << >>
    /\ outs = << >>
    /\ dnoms = << >>
    /\ sums = << >>
    /\ warm = 0
    /\ nones = 0
    /\ drained = 0
    /\ reused = FALSE
    /\ call = "new"
    /\ ret = None
    /\ panic = "none"
    /\ script = << >>
    /\ iter = << >>
    /\ resetting = FALSE
    /\ ends = 0
    /\ NoImage
    /\ pixel \in Pixels
    /\ argb = << >>
    /\ packed = << >>
    /\ NoSimd
    /\ NoPar

\* Argb::from_u32(pixel)
FromU32 ==
    /\ argb = << >>
    /\ argb' = from_u32(pixel)
    /\ UNCHANGED << gen, origin, histvars, call, ret, panic, itervars, imgvars,
                    pixel, packed, simdvars, parvars >>

\* argb.to_u32()
ToU32 ==
    /\ argb # << >>
    /\ packed = << >>
    /\ packed' = Some(to_u32(argb))
    /\ UNCHANGED << gen, origin, histvars, call, ret, panic, itervars, imgvars,
                    pixel, argb, simdvars, parvars >>

NextArgb ==
    \/ FromU32
    \/ ToU32

SpecArgb == InitArgb /\ [][NextArgb]_vars

\* ---------------------------------------------------------------- C26
\* C26: from_u32 splits a pixel into alpha, red, green, blue from the most
\* significant byte to the least, each channel below 256, and to_u32 of the
\* result is the pixel again.
Thm_C26_RoundTrip ==
    /\ argb # << >> =>
          /\ Len(argb) = 4
          /\ \A c \in 1 .. 4 : argb[c] \in 0 .. ByteMax
          /\ pixel[1] = argb[1] * Pow2(ChannelBits) + argb[2]
          /\ pixel[2] = argb[3] * Pow2(ChannelBits) + argb[4]
    /\ packed # << >> => packed[1] = pixel

Wit_C26_RoundTrip ==
    /\ packed = Some(pixel)
    /\ argb = << 171, 205, 18, 52 >>

\* ------------------------------------ StackBlurrableU32xN (color/simd.rs)
\* the lane count from which Div divides lane by lane in usize
SimdDivLanes == 32

\* Simd<u32, N>::default()
Default_xN(n) == [l \in 1 .. n |-> 0]

Add_xN(a, b) == [l \in 1 .. Len(a) |-> (a[l] + b[l]) % Modulus]
Sub_xN(a, b) == [l \in 1 .. Len(a) |-> (a[l] - b[l]) % Modulus]

\* self.0 * Simd::splat(rhs as u32)
Mul_xN(a, rhs) == [l \in 1 .. Len(a) |-> (a[l] * (rhs % Modulus)) % Modulus]

\* the division panics: a zero divisor, after the cast where there is one
DivPanics_xN(a, rhs) ==
    IF Len(a) < SimdDivLanes THEN rhs % Modulus = 0 ELSE rhs = 0

\* if N < 32 { self.0 / Simd::splat(rhs as u32) }
\* else { each lane: (e as usize / rhs) as u32 }
Div_xN(a, rhs) ==
    IF Len(a) < SimdDivLanes
    THEN [l \in 1 .. Len(a) |-> a[l] \div (rhs % Modulus)]
    ELSE [l \in 1 .. Len(a) |-> (a[l] \div rhs) % Modulus]

\* ------------------------------- StackBlur<StackBlurrableU32xN> (iter.rs)
with_ops_xN(radius, ops, n) ==
    [radius |-> radius, sum |-> Default_xN(n), rate |-> Default_xN(n), dnom |-> 0,
     ops |-> ops, state |-> Preload(0, 0)]

ClearOps_xN(ops, start, n) ==
    [i \in 1 .. Len(ops) |-> IF i <= start THEN Default_xN(n) ELSE ops[i]]

ResizeOps_xN(ops, start, n) ==
    IF Len(ops) >= start
    THEN SubSeq(ops, 1, start)
    ELSE ops \o [i \in 1 .. (start - Len(ops)) |-> Default_xN(n)]

PreloadReset_xN(g, n) ==
    [g EXCEPT !.ops = ResizeOps_xN(ClearOps_xN(g.ops, g.radius + 1, n), g.radius + 1, n),
              !.sum = Default_xN(n),
              !.rate = Default_xN(n),
              !.dnom = 0]

PreloadAccumulate_xN(g, mul, x) ==
    [g EXCEPT !.sum = Add_xN(g.sum, Mul_xN(x, mul)),
              !.rate = Add_xN(g.rate, x),
              !.dnom = g.dnom + mul,
              !.ops = Append(g.ops, x)]

MainRate_xN(g, front, ops) ==
    LET rate == Sub_xN(Add_xN(g.rate, front), Mul_xN(ops[g.radius + 1], 2))
    IN  [g EXCEPT !.rate = rate, !.sum = Add_xN(g.sum, rate), !.ops = ops]

MainAccept_xN(g, leading, trailing, x) ==
    [g EXCEPT !.sum = Add_xN(g.sum, x),
              !.rate = Add_xN(g.rate, x),
              !.ops = Append(g.ops, x),
              !.state = Main(leading, trailing)]

MainTail_xN(g, leading, trailing, item) ==
    IF g.radius = 0 \/ trailing = g.radius
    THEN IF item # None THEN Outcome(MainAccept_xN(g, leading, trailing, item[1]), None, "none")
         ELSE IF g.radius > 0 THEN MainShrink(g, leading, trailing)
         ELSE Outcome(MainFinish(g), None, "none")
    ELSE IF trailing > 0
    THEN IF item # None THEN Outcome(g, None, "fed item is not being consumed")
         ELSE MainShrink(g, leading, trailing)
    ELSE IF item # None THEN Outcome(g, None, "fed item is not being consumed")
         ELSE Outcome(MainFinish(g), None, "none")

main_xN(g, leading, trailing, item) ==
    IF DivPanics_xN(g.sum, g.dnom) THEN Outcome(g, None, "divide by zero")
    ELSE IF Len(g.ops) = 0 THEN Outcome(g, None, "unwrap on None")
    ELSE IF Len(g.ops) - 1 <= g.radius
    THEN Outcome([g EXCEPT !.rate = Add_xN(g.rate, Head(g.ops)), !.ops = Tail(g.ops)],
                 None, "index out of bounds")
    ELSE LET result == Div_xN(g.sum, g.dnom)
             g1 == MainRate_xN(g, Head(g.ops), Tail(g.ops))
             ld == MainLeading(g1, leading)
             out == MainTail_xN(ld.g, ld.leading, trailing, item)
         IN  IF out.panic = "none" THEN Outcome(out.g, Some(result), "none") ELSE out

preload_xN(g, index, trailing, item) ==
    IF item # None
    THEN IF index # 0 /\ index > g.radius
         THEN main_xN([g EXCEPT !.state = Main(0, trailing)], 0, trailing, item)
         ELSE LET g0 == IF index = 0 THEN PreloadReset_xN(g, Len(item[1])) ELSE g
                  mul == g.radius + 1 - index
                  g1 == PreloadAccumulate_xN(g0, mul, item[1])
              IN  Outcome([g1 EXCEPT !.state = PreloadNextState(g1, mul, index, trailing)],
                          None, "none")
    ELSE IF index = 0 THEN PreloadIdle(g)
    ELSE main_xN([g EXCEPT !.state = Main(0, trailing)], 0, trailing, None)

feed_xN(g, item) ==
    IF g.state.tag = "Preload"
    THEN preload_xN(g, g.state.index, g.state.trailing, item)
    ELSE main_xN(g, g.state.leading, g.state.trailing, item)

\* --------------------------------------- the lanes stepped side by side
\* lane l of a deque of vectors
LaneOps(q, l) == [i \in 1 .. Len(q) |-> q[i][l]]

\* lane l of an optional vector
LaneItem(item, l) == IF item = None THEN None ELSE Some(item[1][l])

\* lane l of a lane-packed generator, as a scalar generator
LaneGen(g, l) ==
    [radius |-> g.radius, sum |-> g.sum[l], rate |-> g.rate[l], dnom |-> g.dnom,
     ops |-> LaneOps(g.ops, l), state |-> g.state]

\* the least radius whose full kernel (radius+1)^2 does not fit the sample
WrapRadius == CHOOSE r \in 0 .. Modulus : FullKernel(r) >= Modulus /\ r * r < Modulus

SimdRadii == {0, 1, WrapRadius, WrapRadius + 1}

SimdLaneCounts == {1, 2, SimdDivLanes}

\* a line of len vectors of n lanes
SimdInputs(n, len, seed) ==
    [i \in 1 .. len |-> [l \in 1 .. n |-> ((i + seed) * l + seed) % (MaxVal + 1)]]

\* a deque left by an earlier line
UsedOps_xN(n) == [i \in 1 .. 3 |-> [l \in 1 .. n |-> (i + l) % (MaxVal + 1)]]

InitSimd ==
    /\ gen = with_ops(0, << >>)
    /\ origin = Origin(<< >>, 0, -1, FALSE)
    /\ fed = << >>
    /\ outs = << >>
    /\ dnoms = << >>
    /\ sums = << >>
    /\ warm = 0
    /\ nones = 0
    /\ drained = 0
    /\ reused = FALSE
    /\ call = "new"
    /\ ret = None
    /\ panic = "none"
    /\ script = << >>
    /\ iter = << >>
    /\ resetting = FALSE
    /\ ends = 0
    /\ NoImage
    /\ NoPixel
    /\ NoPar
    /\ \E r \in SimdRadii : \E n \in SimdLaneCounts : \E len \in 0 .. (2 * r + 2) :
       \E seed \in 0 .. MaxVal : \E q \in {<< >>, UsedOps_xN(n)} :
          /\ simd = [gen |-> with_ops_xN(r, q, n), ret |-> None, panic |-> "none",
                     left |-> SimdInputs(n, len, seed)]
          /\ lanes = [l \in 1 .. n |->
                        [gen |-> with_ops(r, LaneOps(q, l)), ret |-> None, panic |-> "none"]]

\* no call has panicked
SimdRunning ==
    /\ simd.panic = "none"
    /\ \A l \in 1 .. Len(lanes) : lanes[l].panic = "none"

\* one feed call on the lane-packed generator, and the same call, lane by
\* lane, on the scalar generators
SimdFeed(item) ==
    /\ \E out \in {feed_xN(simd.gen, item)} :
          simd' = [gen |-> out.g, ret |-> out.ret, panic |-> out.panic,
                   left |-> IF item = None THEN simd.left ELSE Tail(simd.left)]
    /\ lanes' = [l \in 1 .. Len(lanes) |->
                   LET out == feed(lanes[l].gen, LaneItem(item, l))
                   IN  [gen |-> out.g, ret |-> out.ret, panic |-> out.panic]]
    /\ UNCHANGED << gen, origin, histvars, call, ret, panic, itervars, imgvars, cvtvars,
                    parvars >>

SimdFeedSome ==
    /\ SimdRunning
    /\ simd.left # << >>
    /\ SimdFeed(Some(Head(simd.left)))

SimdFeedNone ==
    /\ SimdRunning
    /\ simd.left = << >>
    /\ ~(Idle(simd.gen) /\ simd.ret = None)
    /\ SimdFeed(None)

NextSimd ==
    \/ SimdFeedSome
    \/ SimdFeedNone

SpecSimd == InitSimd /\ [][NextSimd]_vars

\* ---------------------------------------------------------------- C25
\* every lane of the lane-packed generator is the scalar generator of that
\* lane, and the last call returned, lane by lane, what the scalar calls did
LanesAgree ==
    \A l \in 1 .. Len(lanes) :
       /\ simd.panic = lanes[l].panic
       /\ LaneItem(simd.ret, l) = lanes[l].ret
       /\ LaneGen(simd.gen, l) = lanes[l].gen

\* C25: a lane-packed generator of N lanes and N scalar generators of the
\* same radius, fed lane by lane the same sequences, stay equal lane by lane:
\* same outputs, same panics, same state.
Orig_C25_LanesAgree == simd # << >> => LanesAgree

\* with fewer than 32 lanes, or a denominator that fits the sample, the lanes
\* agree
LanesAgreeBelowSimdDivLanes ==
    (simd # << >> /\ (Len(lanes) < SimdDivLanes \/ simd.gen.radius < WrapRadius))
        => LanesAgree

\* ------------------------------------------------------------ par_blur
\* the threads of the pool: rayon::current_num_threads()
ParThreads == 2

\* the largest height and width of the buffers handed to par_blur
ParDim == 3

\* the largest radius handed to par_blur
ParMaxRadius == 1

Threads == 1 .. ParThreads

\* the buffers handed to par_blur: every pixel differs from its neighbours
ParImage(h, w) ==
    [i \in 1 .. h |-> [j \in 1 .. w |-> (5 * i + 3 * j) % (MaxPixel + 1)]]

\* a thread that runs no task
IdleWorker ==
    [busy |-> FALSE, axis |-> "none", line |-> 0, place |-> 0, rd |-> 0,
     self |-> << >>, reads |-> {}, writes |-> {}]

\* the number of items of a pass: rows, then columns
Lines(axis, b) == IF axis = "rows" THEN Height(b) ELSE Width(b)

\* the pixels of a line, as they are in the buffer
LineOf(axis, b, k) == IF axis = "rows" THEN b[k] ELSE Column(b, k)

\* the buffer element at position p of a line
Cell(axis, k, p) == IF axis = "rows" THEN << k, p >> ELSE << p, k >>

\* the buffer with position p of a line written
WithCell(axis, b, k, p, v) ==
    IF axis = "rows" THEN [b EXCEPT ![k][p] = v] ELSE [b EXCEPT ![p][k] = v]

\* faulty variant of OpsSlot: every thread uses the first slot
Mut_OpsSlot_Shared(t) == 1

\* opses_ptr.as_ptr().add(rayon::current_thread_index().unwrap())
OpsSlot(t) == t

\* faulty variant of BridgeNext: the bridged iterator gives the same item again
Mut_BridgeNext_Repeats(k) == k

\* par_bridge: the sequential iterator is advanced, under its lock, by the
\* thread that takes an item
BridgeNext(k) == k + 1

\* faulty variant of PassDone: for_each returns once the iterator is exhausted
Mut_PassDone_NoJoin(taken, count, ws) == taken > count

\* for_each returns: every item has been taken and every closure has returned
PassDone(taken, count, ws) ==
    /\ taken > count
    /\ \A t \in Threads : ~ws[t].busy

InitPar ==
    /\ gen = with_ops(0, << >>)
    /\ origin = Origin(<< >>, 0, -1, FALSE)
    /\ fed = << >>
    /\ outs = << >>
    /\ dnoms = << >>
    /\ sums = << >>
    /\ warm = 0
    /\ nones = 0
    /\ drained = 0
    /\ reused = FALSE
    /\ call = "new"
    /\ ret = None
    /\ panic = "none"
    /\ script = << >>
    /\ iter = << >>
    /\ resetting = FALSE
    /\ ends = 0
    /\ NoImage
    /\ NoPixel
    /\ NoSimd
    /\ \E r \in 0 .. ParMaxRadius : \E h \in 1 .. ParDim : \E w \in 1 .. ParDim :
          par = [buf |-> ParImage(h, w), image |-> ParImage(h, w),
                 radius |-> r, pass |-> "rows", next |-> 1, done |-> {},
                 panic |-> "none"]
    /\ workers = [t \in Threads |-> IdleWorker]
    /\ opses = [t \in Threads |-> Some(<< >>)]

\* a thread takes the next item of the pass and enters the closure:
\* ops_ref.take().unwrap(); StackBlur::new(read.map(..), radius, ops)
StartTask(t) ==
    /\ par.panic = "none"
    /\ par.pass \in {"rows", "cols"}
    /\ ~workers[t].busy
    /\ par.next <= Lines(par.pass, par.buf)
    /\ IF opses[OpsSlot(t)] = None
       THEN /\ par' = [par EXCEPT !.panic = "unwrap on None", !.next = BridgeNext(par.next)]
            /\ UNCHANGED << workers, opses >>
       ELSE /\ par' = [par EXCEPT !.next = BridgeNext(par.next)]
            /\ workers' = [workers EXCEPT ![t] =
                             [busy |-> TRUE, axis |-> par.pass, line |-> par.next,
                              place |-> 1, rd |-> 1,
                              self |-> StackBlurIter_new(<< >>, par.radius,
                                                         opses[OpsSlot(t)][1]),
                              reads |-> {}, writes |-> {}]]
            /\ opses' = [opses EXCEPT ![OpsSlot(t)] = None]
    /\ UNCHANGED << gen, origin, histvars, call, ret, panic, itervars, imgvars, cvtvars,
                    simdvars >>

\* one place of the line: *place = to_pixel(blur.next().unwrap())
StepTask(t) ==
    /\ par.panic = "none"
    /\ workers[t].busy
    /\ \E me \in {workers[t]} : \E ln \in {LineOf(workers[t].axis, par.buf, workers[t].line)} :
          /\ me.place <= Len(ln)
          /\ \E res \in {next([me.self EXCEPT !.iter = Reader(ln, me.rd)])} :
                IF res.panic # "none" \/ res.ret = None
                THEN /\ par' = [par EXCEPT !.panic =
                                   IF res.panic # "none" THEN res.panic
                                   ELSE "unwrap on None"]
                     /\ UNCHANGED workers
                ELSE /\ par' = [par EXCEPT !.buf =
                                   WithCell(me.axis, par.buf, me.line, me.place,
                                            to_u32_cvt(res.ret[1]))]
                     /\ workers' = [workers EXCEPT ![t] =
                           [me EXCEPT !.place = me.place + 1,
                                      !.rd = me.rd + Len(res.taken),
                                      !.self = [res.self EXCEPT !.iter = << >>],
                                      !.reads = me.reads \cup
                                          {Cell(me.axis, me.line, p) :
                                             p \in me.rd .. (me.rd + Len(res.taken) - 1)},
                                      !.writes = me.writes \cup
                                          {Cell(me.axis, me.line, me.place)}]]
    /\ UNCHANGED << opses, gen, origin, histvars, call, ret, panic, itervars, imgvars,
                    cvtvars, simdvars >>

\* faulty variant of FinishTask: the closure returns without putting the deque
\* back
Mut_FinishTask_NoReplace(t) ==
    /\ par.panic = "none"
    /\ workers[t].busy
    /\ workers[t].place > Len(LineOf(workers[t].axis, par.buf, workers[t].line))
    /\ par' = [par EXCEPT !.done = par.done \cup {<< workers[t].axis, workers[t].line >>}]
    /\ workers' = [workers EXCEPT ![t] = IdleWorker]
    /\ UNCHANGED << opses, gen, origin, histvars, call, ret, panic, itervars, imgvars,
                    cvtvars, simdvars >>

\* the closure returns: ops_ref.replace(blur.into_ops())
FinishTask(t) ==
    /\ par.panic = "none"
    /\ workers[t].busy
    /\ workers[t].place > Len(LineOf(workers[t].axis, par.buf, workers[t].line))
    /\ opses' = [opses EXCEPT ![OpsSlot(t)] = Some(into_ops(workers[t].self.generator))]
    /\ par' = [par EXCEPT !.done = par.done \cup {<< workers[t].axis, workers[t].line >>}]
    /\ workers' = [workers EXCEPT ![t] = IdleWorker]
    /\ UNCHANGED << gen, origin, histvars, call, ret, panic, itervars, imgvars, cvtvars,
                    simdvars >>

\* for iter in [rows, cols]: the next par_bridge().for_each begins, or
\* par_blur returns
NextPass ==
    /\ par.panic = "none"
    /\ par.pass \in {"rows", "cols"}
    /\ PassDone(par.next, Lines(par.pass, par.buf), workers)
    /\ par' = [par EXCEPT !.pass = IF par.pass = "rows" THEN "cols" ELSE "done",
                          !.next = 1]
    /\ UNCHANGED << workers, opses, gen, origin, histvars, call, ret, panic, itervars,
                    imgvars, cvtvars, simdvars >>

NextPar ==
    \/ \E t \in Threads : StartTask(t)
    \/ \E t \in Threads : StepTask(t)
    \/ \E t \in Threads : FinishTask(t)
    \/ NextPass

SpecPar == InitPar /\ [][NextPar]_vars

\* ---------------------------------------------------------------- C21
\* the threads that are inside the closure
Busy == {t \in Threads : workers[t].busy}

\* C21: while a thread runs a column task, every row task has returned and
\* no thread runs a row task; while a row task runs, no column has been
\* touched.
Thm_C21_PassBarrier ==
    par # << >> =>
       \A t \in Busy :
          /\ workers[t].axis = par.pass
          /\ workers[t].axis = "cols" =>
                /\ \A i \in 1 .. Height(par.buf) : << "rows", i >> \in par.done
                /\ \A u \in Busy : workers[u].axis = "cols"
          /\ workers[t].axis = "rows" =>
                \A j \in 1 .. Width(par.buf) : << "cols", j >> \notin par.done

Wit_C21_PassBarrier ==
    /\ par # << >> /\ par.panic = "none"
    /\ Busy = Threads
    /\ \A t \in Threads : workers[t].axis = "cols" /\ workers[t].writes # {}
    /\ Height(par.buf) = ParDim /\ Width(par.buf) = ParDim

\* ---------------------------------------------------------------- C22
\* the buffer elements of a line
LineCells(axis, k, b) == {Cell(axis, k, p) : p \in 1 .. Len(LineOf(axis, b, k))}

\* C22: every running task has read and written only elements of its own
\* row or column, two running tasks have different lines of the same pass,
\* and no element written by a running task has been read or written by
\* another running task.
Thm_C22_OwnLine ==
    par # << >> =>
       /\ \A t \in Busy :
             (workers[t].reads \cup workers[t].writes)
                \subseteq LineCells(workers[t].axis, workers[t].line, par.buf)
       /\ \A t \in Busy : \A u \in Busy \ {t} :
             /\ workers[t].axis = workers[u].axis
             /\ workers[t].line # workers[u].line
             /\ workers[t].writes \cap (workers[u].reads \cup workers[u].writes) = {}

Wit_C22_OwnLine ==
    /\ par # << >> /\ par.panic = "none"
    /\ Busy = Threads
    /\ \A t \in Threads :
          /\ workers[t].axis = "rows"
          /\ workers[t].writes # {}
          /\ workers[t].reads # workers[t].writes
    /\ Width(par.buf) = ParDim

\* ---------------------------------------------------------------- C23
\* blur: the rows, then the columns, in order, the deque handed on
RECURSIVE BlurLines(_, _, _, _, _)
BlurLines(axis, b, k, radius, ops) ==
    IF k > Lines(axis, b) THEN [buf |-> b, ops |-> ops, panic |-> "none"]
    ELSE LET res == BlurLine(LineOf(axis, b, k), radius, ops)
             nb == IF axis = "rows" THEN [b EXCEPT ![k] = res.line]
                   ELSE WithColumn(b, k, res.line)
         IN  IF res.panic # "none" THEN [buf |-> nb, ops |-> res.ops, panic |-> res.panic]
             ELSE BlurLines(axis, nb, k + 1, radius, res.ops)

\* blur(buffer, radius, ..)
blur(b, radius) ==
    LET rows == BlurLines("rows", b, 1, radius, << >>)
    IN  IF rows.panic # "none" THEN rows
        ELSE BlurLines("cols", rows.buf, 1, radius, rows.ops)

\* C23: par_blur does not panic, and when it returns, whatever the order in
\* which the threads took and ran the rows and columns, the buffer is the one
\* blur makes of the same buffer.
Thm_C23_SameAsBlur ==
    par # << >> =>
       /\ par.panic = "none"
       /\ par.pass = "done" =>
             \A seq \in {blur(par.image, par.radius)} :
                /\ seq.panic = "none"
                /\ par.buf = seq.buf

Wit_C23_SameAsBlur ==
    /\ par # << >> /\ par.pass = "done" /\ par.panic = "none"
    /\ par.radius = ParMaxRadius
    /\ Height(par.buf) = ParDim /\ Width(par.buf) = ParDim
    /\ par.buf # par.image
    /\ \E t \in Threads : \E u \in Threads \ {t} :
          Len(opses[t][1]) > 0 /\ Len(opses[u][1]) > 0

\* ---------------------------------------------------------------- C33
\* the subtractions the next feed call can make stay at or above zero:
\* radius+1-index in preload, radius+1-leading and radius+1-trailing,
\* dnom minus the trailing weight and trailing-1 in main
SubtractionsFit(g) ==
    IF g.state.tag = "Preload"
    THEN /\ g.state.index <= g.radius + 1
         /\ g.state.trailing <= g.radius
         /\ g.state.index >= 1 => g.dnom >= g.radius + 1
    ELSE /\ g.state.leading <= g.radius
         /\ g.state.trailing <= g.radius
         /\ g.dnom >= g.radius + 1
         /\ g.state.trailing >= 1 => g.dnom > g.radius + 1 - g.state.trailing

\* C33: as long as no sample is fed while the generator drains, no feed call
\* panics, whatever the radius and however the deque was obtained: the
\* assertion does not fire and no usize subtraction goes below zero, now or
\* in the next call.
Thm_C33_NoAssertNoUnderflow ==
    ~Misuse =>
       /\ panic # "fed item is not being consumed"
       /\ panic # "overflow"
       /\ panic = "none"
       /\ SubtractionsFit(gen)

Wit_C33_NoAssertNoUnderflow ==
    /\ ~Misuse /\ panic = "none" /\ call = "none" /\ ret # None
    /\ gen.radius = MaxRadius /\ gen.state = Main(MaxRadius, 1)
    /\ Len(fed) = MaxLen /\ reused /\ origin.given

\* ---------------------------------------------------------------- C35
\* C35: after a feed call that returned, the window holds radius+1+index
\* samples during warm-up (index >= 1), radius+2+trailing samples in the main
\* state and radius+1 samples once the sequence is finished; so before every
\* call that emits it holds at least radius+2 samples, enough for pop_front
\* and for ops[radius] after it.
Thm_C35_WindowLength ==
    panic = "none" =>
       /\ (gen.state.tag = "Preload" /\ gen.state.index >= 1)
             => Len(gen.ops) = gen.radius + 1 + gen.state.index
       /\ gen.state.tag = "Main" => Len(gen.ops) = gen.radius + 2 + gen.state.trailing
       /\ Finished => Len(gen.ops) = gen.radius + 1
       /\ ~Idle(gen) => Len(gen.ops) >= gen.radius + 2

Wit_C35_WindowLength ==
    /\ panic = "none" /\ gen.state = Main(1, MaxRadius - 1)
    /\ gen.radius = MaxRadius /\ Len(gen.ops) = 2 * MaxRadius + 1
    /\ origin.given /\ reused

\* ---------------------------------------------------------------- C36
\* the input at position j, from 0, of the samples fed so far; 0 outside
InputAt(j) == IF j >= 0 /\ j < Len(fed) THEN fed[j + 1] ELSE 0

\* the sum of the inputs at positions a .. b
RECURSIVE InputSum(_, _)
InputSum(a, b) == IF a > b THEN 0 ELSE InputAt(a) + InputSum(a + 1, b)

\* C36: before every call that emits the output for position p (from 0), rate
\* is the sum of the inputs at p .. p+radius minus the sum of those at
\* p-radius-1 .. p-1, the front of the window is the input at p-radius-1 and
\* the sample subtracted twice is the input at p.
Thm_C36_RateIsSlope ==
    [][Emitted =>
         \A p \in {Len(outs)} :
            /\ gen.rate = (InputSum(p, p + gen.radius)
                             - InputSum(p - gen.radius - 1, p - 1)) % Modulus
            /\ Head(gen.ops) = InputAt(p - gen.radius - 1)
            /\ Tail(gen.ops)[gen.radius + 1] = InputAt(p)]_vars

Wit_C36_RateIsSlope ==
    /\ panic = "none" /\ call = "none" /\ ret # None
    /\ gen.radius = 1 /\ Len(fed) = MaxLen /\ Len(outs) = MaxLen - 1
    /\ fed[1] # 0 /\ fed[MaxLen - 1] # fed[MaxLen]
    /\ gen.rate # 0 /\ reused

EmissionDnomAtLeastCentre ==
    panic = "none" => \A p \in 1 .. Len(dnoms) : dnoms[p] >= gen.radius + 1

\* C34: in the main state the denominator is at least radius+1, and no
\* division of sum by it divides by zero, for every radius and every length
\* of the input.
Orig_C34_NeverDivByZero ==
    simd # << >> =>
       \A l \in 1 .. Len(lanes) :
          /\ lanes[l].gen.state.tag = "Main" => lanes[l].gen.dnom >= lanes[l].gen.radius + 1
          /\ lanes[l].panic # "divide by zero"

\* ---------------------------------------------------------------- C32
\* the samples among items, in order
RECURSIVE Flat(_)
Flat(items) ==
    IF items = << >> THEN << >> ELSE Head(items) \o Flat(Tail(items))

\* C32: StackBlurIter makes one pass over its inner iterator: the items one
\* next() pulls are the next items of the inner iterator, each sample among
\* them is fed once and in order, polling stops at the first None, and while
\* the generator is draining (from the inner None until next() returns None)
\* the inner iterator is not polled.
Thm_C32_OnePass ==
    [][IterNext =>
          LET n == Len(iter) - Len(iter')
              consumed == SubSeq(iter, 1, n)
              base == IF call = "new" \/ ret = None THEN << >> ELSE fed
              innerNone == (n > 0 /\ consumed[n] = None) \/ iter = << >>
          IN  /\ n >= 0
              /\ iter' = SubSeq(iter, n + 1, Len(iter))
              /\ fed' = base \o Flat(consumed)
              /\ \A i \in 1 .. n - 1 : consumed[i] # None
              /\ resetting => (n = 0 /\ fed' = fed /\ ret # None)
              /\ resetting' => ret' # None
              /\ ((resetting \/ innerNone) /\ ret' # None) => resetting'
              /\ (resetting /\ ret' = None) => ~resetting'
    ]_vars

\* the second sequence of a script is draining while items are still waiting
Wit_C32_OnePass ==
    /\ resetting /\ iter # << >> /\ ends = 1 /\ panic = "none"
    /\ Len(fed) >= 1 /\ Len(outs) >= 1 /\ ret # None /\ gen.radius >= 1

\* ---------------------------------------------------------------- C31
\* a line blurred from a copy, as pixels; empty when the copy cannot be blurred
BlurredLine(r, ln) ==
    CHOOSE res \in {IF copy.panic = "none" /\ Len(copy.outs) = Len(ln)
                    THEN [p \in 1 .. Len(ln) |-> to_u32_cvt(copy.outs[p])]
                    ELSE << >> : copy \in {BlurCopy(r, ln)}} : TRUE

\* the row-wise blur of a buffer, every row blurred from a copy
RowsBlurred(b, r) == [i \in 1 .. Height(b) |-> BlurredLine(r, b[i])]

\* the column-wise blur of a buffer, every column blurred from a copy
ColsBlurred(b, r) ==
    CHOOSE res \in {[i \in 1 .. Height(b) |-> [j \in 1 .. Width(b) |-> cols[j][i]]] :
                       cols \in {[j \in 1 .. Width(b) |-> BlurredLine(r, Column(b, j))]}} :
        TRUE

\* C31: blur processes every row before any column: a row turn finds its row
\* and the rows after it as in the original and changes that row only, the
\* columns start after the last row, when the buffer is the row-wise blur of
\* the original, a column turn changes its column only, so each column pass
\* reads only values written by the row pass, and the final buffer is the
\* column-wise blur of the row-wise blur of the original buffer.
Thm_C31_RowsThenCols ==
    [][(NextBlur /\ panic' = "none") =>
          /\ pass = "rows" =>
                /\ \A i \in line .. Height(buf) : buf[i] = image[i]
                /\ \A i \in (1 .. Height(buf)) \ {line} : buf'[i] = buf[i]
                /\ pass' = (IF line = Height(buf) THEN "cols" ELSE "rows")
                /\ pass' = "cols" => buf' = RowsBlurred(image, gen.radius)
          /\ pass = "cols" =>
                /\ \A j \in (1 .. Width(buf)) \ {line} : Column(buf', j) = Column(buf, j)
                /\ rewrite'[1].before = Column(buf, line)
                /\ pass' = (IF line = Width(buf) THEN "done" ELSE "cols")
                /\ pass' = "done" =>
                      \A rb \in {RowsBlurred(image, gen.radius)} :
                         buf' = ColsBlurred(rb, gen.radius)
    ]_vars

\* both passes spread the bright pixel: a pixel off its row and off its column
\* is lit at the end
Wit_C31_RowsThenCols ==
    /\ pass = "done" /\ panic = "none" /\ gen.radius >= 1
    /\ Height(buf) >= 3 /\ Width(buf) >= 3
    /\ \E i \in 1 .. Height(buf) : \E j \in 1 .. Width(buf) :
          /\ image[i][j] # 0
          /\ \E y \in (1 .. Height(buf)) \ {i} : \E x \in (1 .. Width(buf)) \ {j} :
                buf[y][x] # 0
    /\ buf # RowsBlurred(image, gen.radius)

\* ---------------------------------------------------------------- C37
\* the input samples within radius of output position p
InReach(p) ==
    {fed[j] : j \in {k \in 1 .. Len(fed) : Abs(k - p) <= gen.radius}}

\* the smallest element of a non-empty set of numbers
MinOf(S) == CHOOSE m \in S : \A x \in S : m <= x

\* C37: an output whose weighted sum does not overflow lies between the
\* smallest and the largest input sample within radius of its position, so
\* when these samples fit a number of bits the output fits them too and a
\* cast to that many bits (to 8 bits in to_u32) discards no set bit.
Thm_C37_WithinInputs ==
    panic = "none" =>
        \A p \in 1 .. Len(outs) :
           ExactSum(p) < Modulus =>
              \A window \in {InReach(p)} :
                 /\ window # {}
                 /\ MinOf(window) <= outs[p]
                 /\ outs[p] <= MaxOf(window)
                 /\ \A bits \in 1 .. SampleBits :
                       (\A x \in window : x < Pow2(bits)) => outs[p] % Pow2(bits) = outs[p]
                 /\ (\A x \in window : x <= ByteMax) => to_u32_cvt(outs[p]) = outs[p]

\* an output strictly between the samples in its reach, next to a position
\* whose weighted sum overflows
Wit_C37_WithinInputs ==
    /\ panic = "none" /\ call = "none" /\ ret = None /\ gen.radius = MaxRadius
    /\ \E q \in 1 .. Len(outs) : ExactSum(q) >= Modulus
    /\ \E p \in 1 .. Len(outs) :
          /\ ExactSum(p) < Modulus
          /\ MinOf(InReach(p)) < outs[p] /\ outs[p] < MaxOf(InReach(p))
          /\ \E bits \in 1 .. SampleBits - 1 : \A x \in InReach(p) : x < Pow2(bits)

\* ---------------------------------------------------------------- C39
\* the tasks that hold the deque of slot s
Holders(s) == {t \in Threads : workers[t].busy /\ OpsSlot(t) = s}

\* C39: in par_blur, under every interleaving, a slot is empty exactly while
\* one task, running on the thread of the slot, holds its deque: no task finds
\* its slot empty (take().unwrap() never fails), no slot is held by two tasks,
\* a task that has ended has filled its slot again, and every slot is filled
\* when a pass is over and when par_blur returns.
Thm_C39_SlotsFilled ==
    par # << >> =>
       /\ par.panic # "unwrap on None"
       /\ \A s \in Threads :
             /\ Cardinality(Holders(s)) <= 1
             /\ (opses[s] = None) <=> (Holders(s) # {})
       /\ \A t \in Threads : ~workers[t].busy => opses[OpsSlot(t)] # None
       /\ (par.pass = "done" \/ PassDone(par.next, Lines(par.pass, par.buf), workers)) =>
             \A s \in Threads : opses[s] # None

\* in the column pass one thread holds its deque while the slot of another,
\* used in the row pass, is filled again
Wit_C39_SlotsFilled ==
    /\ par # << >> /\ par.panic = "none" /\ par.pass = "cols"
    /\ \E t \in Threads : \E u \in Threads \ {t} :
          /\ workers[t].busy /\ opses[OpsSlot(t)] = None
          /\ ~workers[u].busy /\ opses[OpsSlot(u)] # None
          /\ Len(opses[OpsSlot(u)][1]) > 0
          /\ << "rows", 1 >> \in par.done

============================================================================
